---- MODULE Spec2Model ----
(***************************************************************************)
(* Serving path of the weather prediction API: start-up loading of the     *)
(* per-station LSTM model / scaler pairs (StationService.load_all_models), *)
(* and the POST /predict handler (routes/prediction_routes.py) with the    *)
(* services it calls.                                                      *)
(* Spec is the server: start-up, then /predict requests.  SpecServer is    *)
(* the server answering /weather_data as well.  SpecRegistry is the        *)
(* registry on its own, started on any disk; SpecReload is the registry    *)
(* when create_app is called more than once.  SpecServices is the          *)
(* properties of ServiceManager read by the handler threads.  SpecCalls    *)
(* is the methods that compute on their arguments alone, called one at a   *)
(* time.                                                                   *)
(*                                                                         *)
(* Encodings.                                                              *)
(*  - Coordinates are integers in units of 1e-5 degree (the configured     *)
(*    station coordinates have four decimals; the fifth lets a query       *)
(*    point lie half-way between two stations).                            *)
(*  - A Euclidean distance sqrt(r) is carried as its radicand r (in units  *)
(*    of 1e-10 degree^2).  sqrt is strictly increasing, so < and = on the  *)
(*    distances are < and = on the radicands.  round(distance, 6) is       *)
(*    computed from the radicand by Round6, in units of 1e-6 degree.       *)
(*  - A numeric series is carried by its length; a prediction batch by     *)
(*    the quantities validate_predictions reads.                           *)
(*  - A Python dict is a function with a string domain.  Where the code    *)
(*    only tests truthiness, None and {} are both the empty function;      *)
(*    where it tests `is None`, an optional value is <<>> or <<v>>.        *)
(***************************************************************************)
EXTENDS Integers, Sequences, FiniteSets, TLC

VARIABLES
    models,            \* StationService.models : station -> loaded model
    scalers,           \* StationService.scalers: station -> loaded scaler
    loaded_stations,   \* StationService.loaded_stations (list)
    failed_stations,   \* StationService.failed_stations (list)
    app,               \* start-up position of WeatherApp / load_all_models
    gemini_api_key,    \* AppConfig.GEMINI_API_KEY is set (read once at import)
    req,               \* per handler thread: the locals of the handler
    served,            \* number of requests accepted so far
    disk,              \* the artifact files under MODEL_BASE_PATH that load
    call               \* the last direct call of a service method: its
                       \* arguments and what it returned or raised

vars == <<models, scalers, loaded_stations, failed_stations, app,
          gemini_api_key, req, served, disk, call>>

-----------------------------------------------------------------------------
(* Configuration: src/src/config/settings.py                               *)

TIME_STEP == 30
HISTORICAL_DAYS == 30
OPEN_METEO_TIMEOUT == 30     \* seconds

\* StationConfig.get_station_names(): the keys of STATIONS_COORDINATES in
\* their insertion order.
get_station_names == <<"M5023", "M5025", "P34", "P63">>

STATIONS_COORDINATES ==
    [s \in {"M5023", "M5025", "P34", "P63"} |->
        CASE s = "M5023" -> [lat |-> -37980, lon |-> -7819590]
          [] s = "M5025" -> [lat |-> -33370, lon |-> -7819850]
          [] s = "P34"   -> [lat |-> -38090, lon |-> -7814110]
          [] s = "P63"   -> [lat |-> -32060, lon |-> -7819170]]

StationNames == {get_station_names[i] : i \in 1..Len(get_station_names)}

\* The position of a station in the configured order.
StationIndex(s) == CHOOSE i \in 1..Len(get_station_names) : get_station_names[i] = s

\* Bounds of the model.
MaxServed == 2          \* requests accepted in one run of the server
Handlers == {1, 2}      \* handler threads of the (threaded) server

-----------------------------------------------------------------------------
(* Generic helpers                                                         *)

EmptyDict == [k \in {} |-> TRUE]
Truthy(d) == DOMAIN d # {}

Range(s) == {s[i] : i \in 1..Len(s)}

RECURSIVE SelectSeqBy(_, _)
\* [x for x in s if x \in keep]
SelectSeqBy(s, keep) ==
    IF s = <<>> THEN <<>>
    ELSE IF Head(s) \in keep
         THEN <<Head(s)>> \o SelectSeqBy(Tail(s), keep)
         ELSE SelectSeqBy(Tail(s), keep)

\* dict.update: the entries of b override those of a
Update(a, b) ==
    [k \in DOMAIN a \cup DOMAIN b |-> IF k \in DOMAIN b THEN b[k] ELSE a[k]]

\* d[k] = v as a new dict
Put(d, k, v) ==
    [x \in DOMAIN d \cup {k} |-> IF x = k THEN v ELSE d[x]]

RECURSIVE ISqrtIn(_, _, _)
\* the largest s in lo..hi with s*s <= x  (lo*lo <= x is assumed)
ISqrtIn(x, lo, hi) ==
    IF lo >= hi THEN lo
    ELSE LET mid == (lo + hi + 1) \div 2
         IN IF mid * mid <= x THEN ISqrtIn(x, mid, hi)
                              ELSE ISqrtIn(x, lo, mid - 1)

ISqrt(x) == ISqrtIn(x, 0, 46340)

-----------------------------------------------------------------------------
(* Values                                                                  *)

None == <<>>
Some(v) == <<v>>

\* An exception: its class and str(e).
Exc(type, msg) == [type |-> type, msg |-> msg]
Raise(type, msg) == [ok |-> FALSE, exc |-> Exc(type, msg)]
Return(v) == [ok |-> TRUE, val |-> v]

\* A JSON number, or a JSON string float() cannot convert.
Num(v) == [num |-> TRUE, v |-> v]
NotANumber == [num |-> FALSE, v |-> 0]

\* A date string: fmt says whether it has the shape digits-digits-digits.
DateStr(y, m, d) == [fmt |-> TRUE, y |-> y, m |-> m, d |-> d]
Unformatted == [fmt |-> FALSE, y |-> 0, m |-> 0, d |-> 0]

-----------------------------------------------------------------------------
(* StationService: registry of models and scalers                          *)

\* is_model_available
is_model_available_models_only(station_name) ==
    station_name \in DOMAIN models

is_model_available(station_name) ==
    station_name \in DOMAIN models /\ station_name \in DOMAIN scalers

\* get_available_stations
get_available_stations_all ==
    get_station_names

get_available_stations ==
    SelectSeqBy(loaded_stations, {s \in StationNames : is_model_available(s)})

\* get_stations_summary, without the configured coordinates
get_stations_summary ==
    [total_stations |-> Len(get_station_names),
     loaded_stations |-> Len(loaded_stations),
     failed_stations |-> Len(failed_stations),
     available_stations |-> get_available_stations,
     failed_stations_list |-> failed_stations]

\* The loaded artifact of a station is named after the file it came from.
ModelArtifact(station_name) == <<station_name, "lstm_model.h5">>
ScalerArtifact(station_name) == <<station_name, "scaler.pkl">>

Artifacts ==
    {ModelArtifact(s) : s \in StationNames} \cup {ScalerArtifact(s) : s \in StationNames}

\* The disks the server is started on: for every set of stations, the disk
\* on which exactly these are incomplete, M5023 and P34 for want of the model
\* file and M5025 and P63 for want of the scaler file.
ServedDisks ==
    {Artifacts \ ({ModelArtifact(s) : s \in A \cap {"M5023", "P34"}} \cup
                  {ScalerArtifact(s) : s \in A \cap {"M5025", "P63"}}) :
        A \in SUBSET StationNames}

\* One iteration of the for loop of load_all_models, statement by statement.
\* app.i is the index of the station being loaded.
CurrentStation == get_station_names[app.i]

NextStation ==
    IF app.i < Len(get_station_names)
    THEN [app EXCEPT !.pc = "load_model", !.i = app.i + 1]
    ELSE [app EXCEPT !.pc = "loaded"]

\* except Exception: failed_stations.append(station_name); log; next station
LoadFailed_stop ==
    /\ failed_stations' = Append(failed_stations, CurrentStation)
    /\ app' = [app EXCEPT !.pc = "loaded"]
    /\ UNCHANGED <<models, scalers, loaded_stations>>

LoadFailed ==
    /\ failed_stations' = Append(failed_stations, CurrentStation)
    /\ app' = NextStation
    /\ UNCHANGED <<models, scalers, loaded_stations>>

\* _load_lstm_model / _load_scaler: FileNotFoundError when the file is not
\* there, and whatever load_model / joblib.load raises on a file they cannot
\* read; otherwise the loaded artifact.
load_lstm_model(station_name) ==
    IF ModelArtifact(station_name) \in disk
    THEN Return(ModelArtifact(station_name))
    ELSE Raise("FileNotFoundError", "No se encontro el modelo")

load_scaler(station_name) ==
    IF ScalerArtifact(station_name) \in disk
    THEN Return(ScalerArtifact(station_name))
    ELSE Raise("FileNotFoundError", "No se encontro el scaler")

\* model = self._load_lstm_model(station_name)
LoadLstmModel_storing ==
    /\ app.pc = "load_model"
    /\ IF load_lstm_model(CurrentStation).ok
       THEN /\ models' = Put(models, CurrentStation,
                             load_lstm_model(CurrentStation).val)
            /\ app' = [app EXCEPT !.pc = "load_scaler"]
            /\ UNCHANGED <<scalers, loaded_stations, failed_stations>>
       ELSE LoadFailed
    /\ UNCHANGED <<gemini_api_key, req, served, disk, call>>

LoadLstmModel ==
    /\ app.pc = "load_model"
    /\ IF load_lstm_model(CurrentStation).ok
       THEN /\ app' = [app EXCEPT !.pc = "load_scaler"]
            /\ UNCHANGED <<models, scalers, loaded_stations, failed_stations>>
       ELSE LoadFailed
    /\ UNCHANGED <<gemini_api_key, req, served, disk, call>>

\* scaler = self._load_scaler(station_name)
LoadScaler ==
    /\ app.pc = "load_scaler"
    /\ IF load_scaler(CurrentStation).ok
       THEN /\ app' = [app EXCEPT !.pc = "store_model"]
            /\ UNCHANGED <<models, scalers, loaded_stations, failed_stations>>
       ELSE LoadFailed
    /\ UNCHANGED <<gemini_api_key, req, served, disk, call>>

\* self.models[station_name] = model
StoreModel ==
    /\ app.pc = "store_model"
    /\ models' = Put(models, CurrentStation, load_lstm_model(CurrentStation).val)
    /\ app' = [app EXCEPT !.pc = "store_scaler"]
    /\ UNCHANGED <<scalers, loaded_stations, failed_stations,
                   gemini_api_key, req, served, disk, call>>

\* self.scalers[station_name] = scaler
StoreScaler ==
    /\ app.pc = "store_scaler"
    /\ scalers' = Put(scalers, CurrentStation, load_scaler(CurrentStation).val)
    /\ app' = [app EXCEPT !.pc = "append_loaded"]
    /\ UNCHANGED <<models, loaded_stations, failed_stations,
                   gemini_api_key, req, served, disk, call>>

\* self.loaded_stations.append(station_name)
AppendLoaded ==
    /\ app.pc = "append_loaded"
    /\ loaded_stations' = Append(loaded_stations, CurrentStation)
    /\ app' = NextStation
    /\ UNCHANGED <<models, scalers, failed_stations,
                   gemini_api_key, req, served, disk, call>>

\* WeatherApp._initialize_services after initialize_all, then run():
\* the summary is logged and the server starts to accept requests.
StartServing ==
    /\ app.pc = "loaded"
    /\ app' = [app EXCEPT !.pc = "running"]
    /\ UNCHANGED <<models, scalers, loaded_stations, failed_stations,
                   gemini_api_key, req, served, disk, call>>

-----------------------------------------------------------------------------
(* datetime.strptime(s, '%Y-%m-%d') and date arithmetic                    *)

IsLeap(y) == (y % 4 = 0) /\ ((y % 100 # 0) \/ (y % 400 = 0))

DaysInMonth(y, m) ==
    CASE m \in {1, 3, 5, 7, 8, 10, 12} -> 31
      [] m \in {4, 6, 9, 11} -> 30
      [] m = 2 -> IF IsLeap(y) THEN 29 ELSE 28
      [] OTHER -> 0

RECURSIVE DaysBeforeMonth(_, _)
DaysBeforeMonth(y, m) ==
    IF m <= 1 THEN 0 ELSE DaysBeforeMonth(y, m - 1) + DaysInMonth(y, m - 1)

\* strptime succeeds
Parses(s) ==
    /\ s.fmt
    /\ s.y \in 1..9999
    /\ s.m \in 1..12
    /\ s.d \in 1..DaysInMonth(s.y, s.m)

\* the day number of a parsed date (date.toordinal)
Ordinal(s) ==
    LET p == s.y - 1
    IN p * 365 + (p \div 4) - (p \div 100) + (p \div 400)
       + DaysBeforeMonth(s.y, s.m) + s.d

-----------------------------------------------------------------------------
(* utils/validators.py                                                     *)

\* CoordinateValidator
validate_latitude(latitude) == -9000000 <= latitude /\ latitude <= 9000000
validate_longitude(longitude) == -18000000 <= longitude /\ longitude <= 18000000

calculate_euclidean_distance_lat(lat1, lon1, lat2, lon2) ==
    (lat1 - lat2) * (lat1 - lat2)

\* GeographicCalculator.calculate_euclidean_distance (the radicand of the
\* square root, see the encodings above)
calculate_euclidean_distance(lat1, lon1, lat2, lon2) ==
    (lat1 - lat2) * (lat1 - lat2) + (lon1 - lon2) * (lon1 - lon2)

\* GeographicCalculator.calculate_haversine_distance, to second order in the
\* angles (the stations lie within a degree of the equator and of each
\* other): 6371 km * sqrt(dlat^2 + cos(lat1) cos(lat2) dlon^2), the angles in
\* radians.  It is carried, as the Euclidean distance is, by its radicand:
\* the pair <<hi, lo>> stands for hi * 10^6 + lo in units of 1e-16 degree^2,
\* with 10^6 * (1 - cos(lat1) cos(lat2)) = (lat1^2 + lat2^2) / 2 in radians
\* = 152.3e-6 * (lat1^2 + lat2^2) in units of 1e-3 degree.
calculate_haversine_distance(lat1, lon1, lat2, lon2) ==
    LET dlat == lat2 - lat1
        dlon == lon2 - lon1
        k == ((((lat1 \div 100) * (lat1 \div 100)
                 + (lat2 \div 100) * (lat2 \div 100)) * 152) \div 1000000)
        \* t = k * dlon^2 as t_hi * 10^6 + t_lo, without the large product
        d2 == dlon * dlon
        ka == k * (d2 \div 100000)
        low == (ka % 10) * 100000 + k * (d2 % 100000)
        t_hi == ka \div 10 + low \div 1000000
        t_lo == low % 1000000
    IN IF t_lo = 0
       THEN <<dlat * dlat + d2 - t_hi, 0>>
       ELSE <<dlat * dlat + d2 - t_hi - 1, 1000000 - t_lo>>

\* a < b on haversine distances
HaversineLess(a, b) == a[1] < b[1] \/ (a[1] = b[1] /\ a[2] < b[2])

\* round(distance, 6), in units of 1e-6 degree: the integer nearest to
\* 10 * sqrt(radicand).  With a = floor(sqrt(radicand)) the result is
\* 10a + b or 10a + b + 1 for the largest b in 0..9 with
\* (10a + b)^2 <= 100 * radicand, compared without the large products.
Round6(distance) ==
    LET a == ISqrt(distance)
        rem == 100 * (distance - a * a)
        b == CHOOSE x \in 0..9 :
                 /\ 20 * a * x + x * x <= rem
                 /\ \A y \in (x + 1)..9 : 20 * a * y + y * y > rem
    IN IF 20 * a * b + b * b + 10 * a + b < rem
       THEN 10 * a + b + 1
       ELSE 10 * a + b

\* An entry of a column of floats: None, NaN, or a number (carried in units
\* of 1/60, in which the interpolation between two of the numbers used
\* here, up to five places apart, divides exactly).
FloatNone == [kind |-> "None", v |-> 0]
FloatNaN == [kind |-> "nan", v |-> 0]
Float(v) == [kind |-> "float", v |-> v]

\* val is not None and not math.isnan(val)
IsValidEntry(val) == val # FloatNone /\ val # FloatNaN

interpolate_missing_values_one(data) ==
    LET valid_indices == {i \in 1..Len(data) : IsValidEntry(data[i])}
    IN IF valid_indices = {} THEN data
       ELSE [i \in 1..Len(data) |->
               IF i \in valid_indices THEN data[i]
               ELSE LET before == {idx \in valid_indices : idx < i}
                        after == {idx \in valid_indices : idx > i}
                    IN IF before # {}
                       THEN data[CHOOSE x \in before : \A y \in before : y <= x]
                       ELSE data[CHOOSE x \in after : \A y \in after : x <= y]]

\* DataCleaner.interpolate_missing_values.  valid_indices is ascending, so
\* the inner loop leaves prev_idx at the last valid index below i and
\* next_idx at the first one above i.
interpolate_missing_values(data) ==
    IF data = <<>> THEN data
    ELSE LET valid_indices == {i \in 1..Len(data) : IsValidEntry(data[i])}
         IN IF Cardinality(valid_indices) < 2 THEN data
            ELSE [i \in 1..Len(data) |->
                    IF i \in valid_indices THEN data[i]
                    ELSE LET before == {idx \in valid_indices : idx < i}
                             after == {idx \in valid_indices : idx > i}
                             prev_idx == CHOOSE x \in before : \A y \in before : y <= x
                             next_idx == CHOOSE x \in after : \A y \in after : x <= y
                         IN IF before # {} /\ after # {}
                            THEN Float(data[prev_idx].v
                                       + ((data[next_idx].v - data[prev_idx].v)
                                              * (i - prev_idx)) \div (next_idx - prev_idx))
                            ELSE IF before # {} THEN data[prev_idx]
                            ELSE IF after # {} THEN data[next_idx]
                            ELSE data[i]]

\* RequestValidator.validate_json_data: "" when it returns, else the class of
\* the exception it raises
validate_json_data_any(data) == ""

validate_json_data(data) ==
    IF \/ data.kind = "none"                               \* not data: None
       \/ (data.kind = "dict" /\ ~Truthy(data.fields))     \* not data: {}
       \/ data.kind # "dict"                               \* not a dict
    THEN "ValidationError"
    ELSE ""

\* RequestValidator.validate_required_fields.  `field not in data` raises
\* TypeError on None and is true of every field for a list of other things.
validate_required_fields(data, required_fields) ==
    IF data.kind = "none" THEN "TypeError"
    ELSE LET missing_fields ==
                 SelectSeqBy(required_fields,
                             IF data.kind = "dict"
                             THEN Range(required_fields) \ DOMAIN data.fields
                             ELSE Range(required_fields))
         IN IF missing_fields # <<>> THEN "ValidationError" ELSE ""

-----------------------------------------------------------------------------
(* models/data_models.py                                                   *)

\* WeatherDataRequest(...) with __post_init__, as predict() builds it:
\* float() of the coordinates, then _validate_date, then
\* _validate_coordinates.  Every failure is a ValueError (TypeError for a
\* value float() does not accept at all is not among the inputs).
WeatherDataRequest(data) ==
    LET f == data.fields
    IN IF ~({"date", "latitude", "longitude"} \subseteq DOMAIN f)
       THEN Raise("KeyError", "campo ausente")
       ELSE IF ~f["latitude"].num \/ ~f["longitude"].num
       THEN Raise("ValueError", "could not convert string to float")
       ELSE IF ~Parses(f["date"])
       THEN Raise("ValueError", "Formato de fecha invalido. Usar YYYY-MM-DD")
       ELSE IF ~(-9000000 <= f["latitude"].v /\ f["latitude"].v <= 9000000)
       THEN Raise("ValueError", "Latitud debe estar entre -90 y 90")
       ELSE IF ~(-18000000 <= f["longitude"].v /\ f["longitude"].v <= 18000000)
       THEN Raise("ValueError", "Longitud debe estar entre -180 y 180")
       ELSE Return([date |-> f["date"],
                    latitude |-> f["latitude"].v,
                    longitude |-> f["longitude"].v,
                    include_analysis |->
                        IF "include_analysis" \in DOMAIN f
                        THEN f["include_analysis"] ELSE TRUE])

\* HistoricalWeatherData.to_dict
HistoricalWeatherData_to_dict(h) ==
    [precipitacion |-> h.precipitations,
     temperatura   |-> h.temperatures,
     humedad       |-> h.humidity,
     timestamps    |-> h.timestamps,
     periodo       |-> [inicio |-> h.start_date, fin |-> h.end_date]]

\* APIResponse(success, data, error, details).to_dict()
APIResponse_to_dict(success, data, error, details) ==
    LET r0 == [k \in {"success"} |-> success]
        r1 == IF Truthy(data) THEN Update(r0, data) ELSE r0
        r2 == IF error # "" THEN Put(r1, "error", error) ELSE r1
    IN IF Truthy(details) THEN Put(r2, "details", details) ELSE r2

-----------------------------------------------------------------------------
(* services/station_service.py: lookups                                    *)

RECURSIVE NearestFrom_last(_, _, _, _)
NearestFrom_last(i, best, target_lat, target_lon) ==
    IF i > Len(get_station_names) THEN best
    ELSE LET station_name == get_station_names[i]
             coords == STATIONS_COORDINATES[station_name]
             distance == calculate_euclidean_distance(
                             target_lat, target_lon, coords.lat, coords.lon)
         IN NearestFrom_last(i + 1,
                IF best = None \/ distance <= best[1].distance
                THEN Some([station |-> station_name, distance |-> distance])
                ELSE best,
                target_lat, target_lon)

RECURSIVE NearestFrom(_, _, _, _)
\* the for loop of find_nearest_station from station i on; best is
\* (nearest_station, min_distance), None standing for (None, inf)
NearestFrom(i, best, target_lat, target_lon) ==
    IF i > Len(get_station_names) THEN best
    ELSE LET station_name == get_station_names[i]
             coords == STATIONS_COORDINATES[station_name]
             distance == calculate_euclidean_distance(
                             target_lat, target_lon, coords.lat, coords.lon)
         IN NearestFrom(i + 1,
                IF best = None \/ distance < best[1].distance
                THEN Some([station |-> station_name, distance |-> distance])
                ELSE best,
                target_lat, target_lon)

find_nearest_station_first(target_lat, target_lon) ==
    [station |-> get_station_names[1],
     distance |-> calculate_euclidean_distance(
                      target_lat, target_lon,
                      STATIONS_COORDINATES[get_station_names[1]].lat,
                      STATIONS_COORDINATES[get_station_names[1]].lon)]

find_nearest_station_haversine(target_lat, target_lon) ==
    LET h(s) == calculate_haversine_distance(
                    target_lat, target_lon,
                    STATIONS_COORDINATES[s].lat, STATIONS_COORDINATES[s].lon)
        s == CHOOSE x \in StationNames :
                 \A y \in StationNames \ {x} :
                     \/ HaversineLess(h(x), h(y))
                     \/ h(x) = h(y) /\ StationIndex(x) < StationIndex(y)
    IN [station |-> s,
        distance |-> calculate_euclidean_distance(
                         target_lat, target_lon,
                         STATIONS_COORDINATES[s].lat, STATIONS_COORDINATES[s].lon)]

find_nearest_station(target_lat, target_lon) ==
    NearestFrom(1, None, target_lat, target_lon)[1]

\* get_model_and_scaler
get_model_and_scaler_any(station_name) ==
    LET some == CHOOSE s \in DOMAIN models : TRUE
    IN IF DOMAIN models = {}
       THEN Raise("ValueError", "Modelo para la estacion no esta disponible")
       ELSE Return([model |-> models[some], scaler |-> scalers[some]])

get_model_and_scaler_unchecked(station_name) ==
    IF station_name \notin DOMAIN models
    THEN Raise("ValueError", "Modelo para la estacion no esta disponible")
    ELSE Return([model |-> models[station_name],
                 scaler |-> IF station_name \in DOMAIN scalers
                            THEN scalers[station_name] ELSE None])

get_model_and_scaler(station_name) ==
    IF ~is_model_available(station_name)
    THEN Raise("ValueError", "Modelo para la estacion no esta disponible")
    ELSE Return([model |-> models[station_name],
                 scaler |-> scalers[station_name]])

-----------------------------------------------------------------------------
(* services/weather_service.py                                             *)

\* What the archive API can answer to the one GET of _fetch_data_from_api
\* for the window start..end (day numbers):
\*   - no answer: network error, timeout or HTTP error status;
\*   - a JSON object without 'hourly', or with 'hourly' lacking a series;
\*   - 'hourly' with the three series and 'time', of the given lengths:
\*     24 samples for each day of the window, fewer than TIME_STEP samples,
\*     none at all, or series of unequal length.
Hourly(nT, nP, nH, nTime) ==
    [kind |-> "json", hourly |-> TRUE,
     keys |-> {"temperature_2m", "precipitation", "relative_humidity_2m", "time"},
     temperature_2m |-> nT, precipitation |-> nP,
     relative_humidity_2m |-> nH, time |-> nTime]

WindowSamples(start, end) == 24 * (end - start + 1)

ApiAnswers(start, end) ==
    LET full == WindowSamples(start, end)
    IN { [kind |-> "error", hourly |-> FALSE, keys |-> {},
          temperature_2m |-> 0, precipitation |-> 0,
          relative_humidity_2m |-> 0, time |-> 0],
         [kind |-> "json", hourly |-> FALSE, keys |-> {},
          temperature_2m |-> 0, precipitation |-> 0,
          relative_humidity_2m |-> 0, time |-> 0],
         [Hourly(full, 0, full, full) EXCEPT
              !.keys = {"temperature_2m", "relative_humidity_2m", "time"}],
         Hourly(full, full, full, full),
         Hourly(TIME_STEP - 1, TIME_STEP - 1, TIME_STEP - 1, TIME_STEP - 1),
         Hourly(0, 0, 0, 0),
         Hourly(full, full, full - 1, full) }

\* _validate_api_response: "" or the exception class
validate_api_response_hourly_only(data) ==
    IF ~data.hourly THEN "ValueError" ELSE ""

validate_api_response(data) ==
    IF ~data.hourly THEN "ValueError"
    ELSE IF {"temperature_2m", "precipitation", "relative_humidity_2m"}
                \subseteq data.keys
         THEN "" ELSE "ValueError"

\* An item of an hourly array of the archive's JSON: null, a number, a
\* string float() converts, a string it refuses, or a nested list.
JsonNull == [kind |-> "null", v |-> 0]
JsonNumber(v) == [kind |-> "number", v |-> v]
JsonNumeral(v) == [kind |-> "numeral", v |-> v]
JsonText == [kind |-> "text", v |-> 0]
JsonList == [kind |-> "list", v |-> 0]

\* float(item) for an item that is not None
float_of(item) ==
    IF item.kind \in {"number", "numeral"} THEN Return(item.v)
    ELSE IF item.kind = "text" THEN Raise("ValueError", "could not convert")
    ELSE Raise("TypeError", "float() argument must be a string or a number")

RECURSIVE clean_numeric_data_items_dropping(_)
clean_numeric_data_items_dropping(data) ==
    IF data = <<>> THEN <<>>
    ELSE IF Head(data) = JsonNull \/ ~float_of(Head(data)).ok
         THEN clean_numeric_data_items_dropping(Tail(data))
         ELSE <<float_of(Head(data)).val>>
                  \o clean_numeric_data_items_dropping(Tail(data))

RECURSIVE clean_numeric_data_items(_)
\* _clean_numeric_data on the items themselves: the for loop, appending to
\* cleaned one value for each item
clean_numeric_data_items(data) ==
    IF data = <<>> THEN <<>>
    ELSE (IF Head(data) = JsonNull THEN <<0>>
          ELSE IF float_of(Head(data)).ok THEN <<float_of(Head(data)).val>>
          ELSE <<0>>)
         \o clean_numeric_data_items(Tail(data))

\* _clean_numeric_data appends exactly one value per item
clean_numeric_data(n) == n

\* _process_api_response.  query is what the outbound request asked for.
process_api_response(data, start_date, end_date, query) ==
    [temperatures   |-> clean_numeric_data(data.temperature_2m),
     precipitations |-> clean_numeric_data(data.precipitation),
     humidity       |-> clean_numeric_data(data.relative_humidity_2m),
     timestamps     |-> IF "time" \in data.keys THEN data.time ELSE 0,
     start_date     |-> start_date,
     end_date       |-> end_date,
     query          |-> query]

\* The dates get_historical_data asks the archive for.
EndDate(date_str) == Ordinal(date_str)

StartDate(date_str) == Ordinal(date_str) - HISTORICAL_DAYS

\* Whether get_historical_data gets as far as the GET: the two validators
\* come first and raise.
IssuesRequest_date_only(date_str, lat, lon) ==
    Parses(date_str)

IssuesRequest(date_str, lat, lon) ==
    Parses(date_str) /\ validate_latitude(lat) /\ validate_longitude(lon)

\* requests.get(self.base_url, params=params, timeout=self.timeout): the
\* request as it leaves, self.timeout being AppConfig.OPEN_METEO_TIMEOUT.
requests_get(lat, lon, start_date, end_date) ==
    [latitude |-> lat, longitude |-> lon,
     start_date |-> start_date, end_date |-> end_date,
     timeout |-> OPEN_METEO_TIMEOUT]

\* The outbound requests of one call of get_historical_data, each with the
\* answer it got: the one GET of _fetch_data_from_api, when the call gets
\* that far.  Nothing catches a failure to ask again.
OutboundRequests_retry(date_str, lat, lon, answer) ==
    LET sent == [request |-> requests_get(lat, lon, StartDate(date_str),
                                          EndDate(date_str)),
                 answer |-> answer]
    IN IF ~IssuesRequest(date_str, lat, lon) THEN <<>>
       ELSE IF answer.kind = "error" THEN <<sent, sent>>
       ELSE <<sent>>

OutboundRequests(date_str, lat, lon, answer) ==
    IF IssuesRequest(date_str, lat, lon)
    THEN <<[request |-> requests_get(lat, lon, StartDate(date_str),
                                     EndDate(date_str)),
            answer |-> answer]>>
    ELSE <<>>

\* get_historical_data, given the archive's answer to its request
get_historical_data(date_str, lat, lon, answer) ==
    IF ~Parses(date_str)
    THEN Raise("ValidationError", "Formato de fecha invalido")
    ELSE IF ~validate_latitude(lat)
    THEN Raise("ValidationError", "Latitud invalida")
    ELSE IF ~validate_longitude(lon)
    THEN Raise("ValidationError", "Longitud invalida")
    ELSE LET query == [latitude |-> lat, longitude |-> lon,
                       start_date |-> StartDate(date_str),
                       end_date |-> EndDate(date_str)]
         IN IF answer.kind = "error"
            THEN Raise("ValueError", "Error de conexion con Open-Meteo")
            ELSE IF validate_api_response(answer) # ""
            THEN Raise("ValueError", "respuesta de la API sin datos horarios")
            ELSE Return(process_api_response(
                            answer, StartDate(date_str), EndDate(date_str), query))

\* What get_historical_data writes to the log: log_error in the except
\* clause around the fetch, which the validators' exceptions do not reach.
get_historical_data_log(date_str, lat, lon, answer) ==
    IF IssuesRequest(date_str, lat, lon)
       /\ ~get_historical_data(date_str, lat, lon, answer).ok
    THEN <<"error">> ELSE <<>>

-----------------------------------------------------------------------------
(* services/prediction_service.py                                          *)

\* _create_sequences on a series of L rows: the number of windows
create_sequences_unchecked(L) ==
    Return(IF L < TIME_STEP THEN 0 ELSE L - TIME_STEP + 1)

create_sequences(L) ==
    IF L < TIME_STEP
    THEN Raise("ValueError", "Datos insuficientes para crear secuencias")
    ELSE Return(L - TIME_STEP + 1)

create_sequences_rows_short(data_scaled) ==
    IF Len(data_scaled) < TIME_STEP
    THEN Raise("ValueError", "Datos insuficientes para crear secuencias")
    ELSE Return([i \in 1..(Len(data_scaled) - TIME_STEP) |->
                    SubSeq(data_scaled, i, i + TIME_STEP - 1)])

\* _create_sequences on the rows themselves: X[i] = data_scaled[i : i +
\* time_step] for i in range(len(data_scaled) - time_step + 1), the rows
\* counted from 1 here.
create_sequences_rows(data_scaled) ==
    IF Len(data_scaled) < TIME_STEP
    THEN Raise("ValueError", "Datos insuficientes para crear secuencias")
    ELSE Return([i \in 1..(Len(data_scaled) - TIME_STEP + 1) |->
                    SubSeq(data_scaled, i, i + TIME_STEP - 1)])

\* preprocess_data: the number of windows in X_test.  np.array of three
\* lists of unequal length is not a 2-D numeric array: numpy either refuses
\* to build it or builds an object array np.isnan refuses; both are raised
\* inside the try.  Every exception leaves as ValueError.
preprocess_data(historical_data, scaler) ==
    LET rows == historical_data.precipitations
    IN IF \/ historical_data.temperatures # rows
          \/ historical_data.humidity # rows
       THEN Raise("ValueError", "Error en el preprocesamiento: forma")
       ELSE IF 3 * rows = 0
       THEN Raise("ValueError", "Error en el preprocesamiento: No hay datos")
       ELSE IF ~create_sequences(rows).ok
       THEN Raise("ValueError", "Error en el preprocesamiento: insuficientes")
       ELSE create_sequences(rows)

\* What preprocess_data writes to the log: log_error in its except clause.
preprocess_data_log(historical_data, scaler) ==
    IF preprocess_data(historical_data, scaler).ok THEN <<>> ELSE <<"error">>

\* A prediction batch: n rows of cols columns; nonfinite says whether a NaN
\* or an infinity occurs; tmin and tmax are the extremes of column 1.
Batch(n, nonfinite, tmin, tmax) ==
    [n |-> n, cols |-> 3, nonfinite |-> nonfinite, tmin |-> tmin, tmax |-> tmax]

\* What model.predict followed by scaler.inverse_transform can give for
\* n windows: an exception, or one output row per window.
ModelOutputs(n) ==
    { [raises |-> TRUE,  batch |-> Batch(0, FALSE, 0, 0)],
      [raises |-> FALSE, batch |-> Batch(n, FALSE, 5, 20)],
      [raises |-> FALSE, batch |-> Batch(n, TRUE, 5, 20)],
      [raises |-> FALSE, batch |-> Batch(n, FALSE, 5, 61)] }

\* PredictionService.predict
predict(model, X_test, scaler, output) ==
    IF output.raises
    THEN Raise("ValueError", "Error en la prediccion")
    ELSE Return(output.batch)

\* What predict writes to the log: log_error in its except clause.
predict_log(model, X_test, scaler, output) ==
    IF output.raises THEN <<"error">> ELSE <<>>

\* What validate_predictions writes to the log: a warning for a value that
\* is not finite or a temperature out of range, nothing for an empty batch.
validate_predictions_log(predictions) ==
    IF predictions.n * predictions.cols = 0 THEN <<>>
    ELSE IF predictions.nonfinite THEN <<"warning">>
    ELSE IF predictions.cols >= 3
            /\ (predictions.tmin < -50 \/ predictions.tmax > 60)
    THEN <<"warning">>
    ELSE <<>>

\* validate_predictions
validate_predictions(predictions) ==
    IF predictions.n * predictions.cols = 0 THEN FALSE
    ELSE IF predictions.nonfinite THEN FALSE
    ELSE IF predictions.cols >= 3
            /\ (predictions.tmin < -50 \/ predictions.tmax > 60)
    THEN FALSE
    ELSE TRUE

\* Components of a prediction row that are not finite (the finite ones are
\* Float(v), v in units of 1/60).
FloatInf == [kind |-> "inf", v |-> 0]
FloatNegInf == [kind |-> "-inf", v |-> 0]

\* np.isinf(x) or np.isnan(x)
IsNonFinite(x) == x.kind \in {"inf", "-inf", "nan"}

validate_predictions_rows_exclusive(predictions) ==
    IF Len(predictions) = 0 THEN FALSE
    ELSE IF \E i \in 1..Len(predictions) : \E j \in 1..Len(predictions[i]) :
               IsNonFinite(predictions[i][j])
    THEN FALSE
    ELSE IF /\ Len(predictions[1]) >= 3
            /\ \E i \in 1..Len(predictions) :
                  predictions[i][2].v <= -50 * 60 \/ predictions[i][2].v >= 60 * 60
    THEN FALSE
    ELSE TRUE

\* validate_predictions on the rows themselves: predictions.size == 0,
\* np.isinf / np.isnan over every component, and the temperatures
\* predictions[:, 1] (the second component, counted from 1 here) when the
\* rows have at least three components.
validate_predictions_rows(predictions) ==
    IF Len(predictions) = 0 THEN FALSE
    ELSE IF \E i \in 1..Len(predictions) : \E j \in 1..Len(predictions[i]) :
               IsNonFinite(predictions[i][j])
    THEN FALSE
    ELSE IF /\ Len(predictions[1]) >= 3
            /\ \E i \in 1..Len(predictions) :
                  predictions[i][2].v < -50 * 60 \/ predictions[i][2].v > 60 * 60
    THEN FALSE
    ELSE TRUE

-----------------------------------------------------------------------------
(* services/analysis_service.py                                            *)

\* What generate_content can do: raise, or answer with a text holding a JSON
\* object, the empty JSON object, braces that are not JSON, or no JSON.
GeminiAnswers == {"exception", "json_object", "empty_object", "bad_json", "no_json"}

\* A result (analysis, error) of the adapter; error "" stands for None.
Analysis(analysis, error) == [analysis |-> analysis, error |-> error]

\* AnalysisService.is_available: the model exists iff the key was set
\* when the service was built.
analysis_is_available == gemini_api_key

\* _process_analysis_response
process_analysis_response(answer) ==
    CASE answer = "json_object" ->
             Analysis(Some([resumen_climatico |-> "texto"]), "")
      [] answer = "empty_object" ->
             Analysis(Some(EmptyDict), "")
      [] OTHER ->   \* no JSON found, or JSONDecodeError: the raw text
             Analysis(Some([analisis_texto |-> "texto"]), "")

\* analyze_predictions(predictions, location_data), given the answer of the
\* text service.  A malformed analysis_types makes _create_analysis_prompt
\* raise inside the try.
analyze_predictions_unguarded(n_predictions, location_data, answer) ==
    IF ~analysis_is_available
    THEN Return(Analysis(None, "Servicio de analisis no disponible"))
    ELSE IF \/ ("analysis_types" \in DOMAIN location_data.fields
                /\ ~location_data.fields["analysis_types"].iterable)
            \/ answer = "exception"
    THEN Raise("Exception", "Error al analizar con Gemini")
    ELSE Return(process_analysis_response(answer))

analyze_predictions(n_predictions, location_data, answer) ==
    IF ~analysis_is_available
    THEN Return(Analysis(None, "Servicio de analisis no disponible"))
    ELSE IF n_predictions = 0
    THEN Return(Analysis(None, "No se encontraron predicciones para analizar"))
    ELSE IF \/ ("analysis_types" \in DOMAIN location_data.fields
                /\ ~location_data.fields["analysis_types"].iterable)
            \/ answer = "exception"
    THEN Return(Analysis(None, "Error al analizar con Gemini"))
    ELSE Return(process_analysis_response(answer))

\* What analyze_predictions writes to the log: log_error in its except
\* clause, and the warning of _process_analysis_response for braces that
\* are not JSON.
analyze_predictions_log(n_predictions, location_data, answer) ==
    IF ~analysis_is_available \/ n_predictions = 0 THEN <<>>
    ELSE IF \/ ("analysis_types" \in DOMAIN location_data.fields
                /\ ~location_data.fields["analysis_types"].iterable)
            \/ answer = "exception"
    THEN <<"error">>
    ELSE IF answer = "bad_json" THEN <<"warning">>
    ELSE <<>>

-----------------------------------------------------------------------------
(* service_manager.py                                                      *)

\* The services the ServiceManager hands out, and those of them first
\* asked for by a request handler (station_service is asked for by
\* initialize_all, at start-up).
Services ==
    {"station_service", "weather_service", "prediction_service", "analysis_service"}

HandlerServices == Services \ {"station_service"}

\* ServiceManager.__init__ at import: no service yet.  station_service says
\* whether _station_service is set; services holds the instance in each other
\* private field (instances are numbered from 1 in the order they are
\* built, 0 is None); built counts the instances built of each class; pc and
\* i are the position of start-up.
new_ServiceManager ==
    [pc |-> "init", i |-> 0, station_service |-> FALSE,
     services |-> [s \in HandlerServices |-> 0],
     built |-> [s \in Services |-> 0]]

\* StationService.__init__: an empty registry
new_StationService ==
    /\ models' = EmptyDict
    /\ scalers' = EmptyDict
    /\ loaded_stations' = <<>>
    /\ failed_stations' = <<>>

\* The station_service property: the StationService built at start-up is
\* returned, and a new one is built only when there is none yet.
station_service_uncached == new_StationService

station_service ==
    IF app.station_service
    THEN UNCHANGED <<models, scalers, loaded_stations, failed_stations>>
    ELSE new_StationService

\* initialize_all: self.station_service (built here, on first access), then
\* load_all_models starts with the first station.
InitializeAll ==
    /\ app.pc = "init"
    /\ station_service
    /\ app' = [app EXCEPT !.pc = "load_model", !.i = 1, !.station_service = TRUE,
                          !.built["station_service"] =
                              IF app.station_service THEN @ ELSE @ + 1]
    /\ UNCHANGED <<gemini_api_key, req, served, disk, call>>

-----------------------------------------------------------------------------
(* routes/prediction_routes.py: POST /predict                              *)

pt(lat, lon) == [lat |-> lat, lon |-> lon]

\* The bodies request.get_json() hands to the handler (None for no body).
JsonDict(fields) == [kind |-> "dict", fields |-> fields]

Fields(date, p) ==
    [date |-> date, latitude |-> Num(p.lat), longitude |-> Num(p.lon)]

Quito  == pt(-35000, -7817000)      \* the example of the API description
AtP34  == pt(-38090, -7814110)      \* exactly a station
NearM5023 == pt(-38000, -7820000)

ValidBodies ==
    { JsonDict(Fields(DateStr(2024, 6, 1), Quito)),
      JsonDict(Put(Fields(DateStr(2024, 6, 1), AtP34), "include_analysis", FALSE)),
      JsonDict(Put(Fields(DateStr(2024, 3, 1), NearM5023),
                   "analysis_types", [iterable |-> FALSE])) }

MalformedBodies ==
    { [kind |-> "none", fields |-> EmptyDict],
      [kind |-> "list", fields |-> EmptyDict],
      JsonDict(EmptyDict),
      JsonDict([date |-> DateStr(2024, 6, 1), latitude |-> Num(-35000)]) }

UnacceptableBodies ==
    { JsonDict(Fields(DateStr(2024, 13, 1), Quito)),
      JsonDict(Fields(Unformatted, Quito)),
      JsonDict(Fields(DateStr(2024, 6, 1), pt(9000001, -7817000))),
      JsonDict(Fields(DateStr(2024, 6, 1), pt(-35000, -18000001))),
      JsonDict([date |-> DateStr(2024, 6, 1), latitude |-> NotANumber,
                longitude |-> Num(-7817000)]) }

RequestBodies == ValidBodies \cup MalformedBodies \cup UnacceptableBodies

\* No service method has been called directly.
NoCall == [fn |-> "", args |-> <<>>, result |-> None]

\* The locals of one run of a handler, and what it has done so far:
\* outbound holds the requests sent to the archive, log the levels of the
\* entries of level WARNING and above written to the log, in order, service
\* the property of service_manager being read and observed the instances
\* each property has returned to this thread.
NewRequest(data) ==
    [pc |-> "validate", endpoint |-> "/predict", outbound |-> <<>>,
     log |-> <<>>, service |-> "", observed |-> [s \in Services |-> {}],
     data |-> data, weather_request |-> None,
     nearest_station |-> "", distance |-> 0, model |-> None, scaler |-> None,
     historical_data |-> None, X_test |-> 0, predictions |-> None,
     analysis |-> None, analysis_error |-> "", response |-> None,
     trace |-> <<>>, weather_calls |-> 0, model_runs |-> 0,
     analysis_calls |-> 0, responses |-> 0]

Idle == [NewRequest([kind |-> "none", fields |-> EmptyDict]) EXCEPT !.pc = "idle"]

\* self.logger.warning(...) / self.logger.error(...)
Log(r, entries) == [r EXCEPT !.log = r.log \o entries]

\* return jsonify(...), status
Respond(r, status, body) ==
    [r EXCEPT !.pc = "done", !.response = Some([status |-> status, body |-> body]),
              !.responses = r.responses + 1]

\* The except clauses of predict()
StatusOf(exc) == IF exc.type = "ValidationError" THEN 400 ELSE 500

HandleException(r, exc) ==
    Respond(Log(r, IF exc.type = "ValidationError" THEN <<"warning">>
                   ELSE <<"error">>),
            StatusOf(exc), APIResponse_to_dict(FALSE, EmptyDict, exc.msg, EmptyDict))

\* The order of the statements of predict(): the stage that follows a stage
\* that succeeded.
PipelineNext_unchecked(stage) ==
    CASE stage = "validate"   -> "locate"
      [] stage = "locate"     -> "fetch"
      [] stage = "check"      -> "get_model"
      [] stage = "get_model"  -> "fetch"
      [] stage = "fetch"      -> "preprocess"
      [] stage = "preprocess" -> "predict"
      [] stage = "predict"    -> "validate_predictions"
      [] stage = "validate_predictions" -> "analysis"
      [] stage = "analysis"   -> "respond"

PipelineNext(stage) ==
    CASE stage = "validate"   -> "locate"
      [] stage = "locate"     -> "check"
      [] stage = "check"      -> "get_model"
      [] stage = "get_model"  -> "fetch"
      [] stage = "fetch"      -> "preprocess"
      [] stage = "preprocess" -> "predict"
      [] stage = "predict"    -> "validate_predictions"
      [] stage = "validate_predictions" -> "analysis"
      [] stage = "analysis"   -> "respond"

Enter(r, stage) == [r EXCEPT !.trace = Append(r.trace, stage)]
Advance(r) == [r EXCEPT !.pc = PipelineNext(r.pc)]

\* Lines 20-36: get_json, validate_json_data, validate_required_fields,
\* WeatherDataRequest(...).  A handler thread takes a new request when it
\* has none or has answered the last one.
ValidateRequest(h) ==
    /\ app.pc = "running"
    /\ req[h].pc \in {"idle", "done"}
    /\ served < MaxServed
    /\ served' = served + 1
    /\ \E data \in RequestBodies :
          LET r == Enter(NewRequest(data), "validate")
              e1 == validate_json_data(data)
              e2 == validate_required_fields(data, <<"date", "latitude", "longitude">>)
              wr == WeatherDataRequest(data)
          IN req' = [req EXCEPT ![h] =
                 IF e1 # ""
                 THEN HandleException(r, Exc(e1, "Se requieren datos JSON validos"))
                 ELSE IF e2 # ""
                 THEN HandleException(r, Exc(e2, "Campos requeridos faltantes"))
                 ELSE IF ~wr.ok
                 THEN HandleException(r, wr.exc)
                 ELSE Advance([r EXCEPT !.weather_request = Some(wr.val)])]
    /\ UNCHANGED <<models, scalers, loaded_stations, failed_stations,
                   app, gemini_api_key, disk, call>>

\* Lines 39-42: find_nearest_station
LocateStation(h) ==
    /\ req[h].pc = "locate"
    /\ station_service
    /\ LET r == Enter(req[h], "locate")
           wr == r.weather_request[1]
           nearest == find_nearest_station(wr.latitude, wr.longitude)
       IN req' = [req EXCEPT ![h] =
              Advance([r EXCEPT !.nearest_station = nearest.station,
                                !.distance = nearest.distance])]
    /\ UNCHANGED <<app, gemini_api_key, served, disk, call>>

\* Lines 44-57: is_model_available, else 503 with the remediation details
CheckAvailability(h) ==
    /\ req[h].pc = "check"
    /\ station_service
    /\ LET r == Enter(req[h], "check")
       IN req' = [req EXCEPT ![h] =
              IF ~is_model_available(r.nearest_station)
              THEN Respond(r, 503,
                       APIResponse_to_dict(FALSE, EmptyDict,
                           "Modelo para la estacion mas cercana no esta disponible",
                           [nearest_station |-> r.nearest_station,
                            distance |-> Round6(r.distance),
                            available_stations |-> get_available_stations]))
              ELSE Advance(r)]
    /\ UNCHANGED <<app, gemini_api_key, served, disk, call>>

\* Lines 59-60: get_model_and_scaler
GetModel(h) ==
    /\ req[h].pc = "get_model"
    /\ station_service
    /\ LET r == Enter(req[h], "get_model")
           got == get_model_and_scaler(r.nearest_station)
       IN req' = [req EXCEPT ![h] =
              IF ~got.ok THEN HandleException(r, got.exc)
              ELSE Advance([r EXCEPT !.model = Some(got.val.model),
                                     !.scaler = Some(got.val.scaler)])]
    /\ UNCHANGED <<app, gemini_api_key, served, disk, call>>

\* Lines 62-65: weather_service.get_historical_data
FetchHistory(h) ==
    /\ req[h].pc = "fetch"
    /\ LET r == Enter(req[h], "fetch")
           wr == r.weather_request[1]
       IN \E answer \in ApiAnswers(StartDate(wr.date), EndDate(wr.date)) :
             LET got == get_historical_data(wr.date, wr.latitude, wr.longitude, answer)
                 out == OutboundRequests(wr.date, wr.latitude, wr.longitude, answer)
                 r1 == Log([r EXCEPT !.weather_calls = r.weather_calls + Len(out),
                                     !.outbound = r.outbound \o out],
                           get_historical_data_log(wr.date, wr.latitude,
                                                   wr.longitude, answer))
             IN req' = [req EXCEPT ![h] =
                    IF ~got.ok THEN HandleException(r1, got.exc)
                    ELSE Advance([r1 EXCEPT !.historical_data = Some(got.val)])]
    /\ UNCHANGED <<models, scalers, loaded_stations, failed_stations,
                   app, gemini_api_key, served, disk, call>>

\* Lines 67-68: prediction_service.preprocess_data
Preprocess(h) ==
    /\ req[h].pc = "preprocess"
    /\ LET r == Log(Enter(req[h], "preprocess"),
                    preprocess_data_log(req[h].historical_data[1], req[h].scaler))
           got == preprocess_data(r.historical_data[1], r.scaler)
       IN req' = [req EXCEPT ![h] =
              IF ~got.ok THEN HandleException(r, got.exc)
              ELSE Advance([r EXCEPT !.X_test = got.val])]
    /\ UNCHANGED <<models, scalers, loaded_stations, failed_stations,
                   app, gemini_api_key, served, disk, call>>

\* Lines 70-71: prediction_service.predict runs the model
Predict(h) ==
    /\ req[h].pc = "predict"
    /\ LET r == [Enter(req[h], "predict") EXCEPT !.model_runs = req[h].model_runs + 1]
       IN \E output \in ModelOutputs(r.X_test) :
             LET got == predict(r.model, r.X_test, r.scaler, output)
                 r1 == Log(r, predict_log(r.model, r.X_test, r.scaler, output))
             IN req' = [req EXCEPT ![h] =
                    IF ~got.ok THEN HandleException(r1, got.exc)
                    ELSE Advance([r1 EXCEPT !.predictions = Some(got.val)])]
    /\ UNCHANGED <<models, scalers, loaded_stations, failed_stations,
                   app, gemini_api_key, served, disk, call>>

\* Lines 75-78: the return for a batch that is not valid
OnInvalidPredictions_continue(r) == Advance(r)

OnInvalidPredictions(r) ==
    Respond(r, 500,
        APIResponse_to_dict(FALSE, EmptyDict,
            "Las predicciones generadas no son validas", EmptyDict))

\* Lines 73-78: validate_predictions, else 500
ValidatePredictions(h) ==
    /\ req[h].pc = "validate_predictions"
    /\ LET r == Log(Enter(req[h], "validate_predictions"),
                    validate_predictions_log(req[h].predictions[1]))
       IN req' = [req EXCEPT ![h] =
              IF ~validate_predictions(r.predictions[1])
              THEN OnInvalidPredictions(r)
              ELSE Advance(r)]
    /\ UNCHANGED <<models, scalers, loaded_stations, failed_stations,
                   app, gemini_api_key, served, disk, call>>

\* Lines 80-89: the optional analysis
Analyse(h) ==
    /\ req[h].pc = "analysis"
    /\ IF req[h].weather_request[1].include_analysis
       THEN LET r == [Enter(req[h], "analysis") EXCEPT
                         !.analysis_calls = req[h].analysis_calls + 1]
            IN \E answer \in GeminiAnswers :
                  LET got == analyze_predictions(r.predictions[1].n, r.data, answer)
                      r1 == Log(r, analyze_predictions_log(r.predictions[1].n,
                                                           r.data, answer))
                  IN req' = [req EXCEPT ![h] =
                         IF ~got.ok THEN HandleException(r1, got.exc)
                         ELSE Advance(Log([r1 EXCEPT !.analysis = got.val.analysis,
                                                    !.analysis_error = got.val.error],
                                          IF got.val.error # "" THEN <<"warning">>
                                          ELSE <<>>))]
       ELSE req' = [req EXCEPT ![h] = Advance(req[h])]
    /\ UNCHANGED <<models, scalers, loaded_stations, failed_stations,
                   app, gemini_api_key, served, disk, call>>

\* get_station_info, as far as the response uses it
get_station_info(station_name) ==
    IF station_name \notin DOMAIN STATIONS_COORDINATES
    THEN Raise("ValueError", "Estacion no encontrada")
    ELSE Return([name |-> station_name,
                 latitude |-> STATIONS_COORDINATES[station_name].lat,
                 longitude |-> STATIONS_COORDINATES[station_name].lon])

\* Lines 96-121: response_data
response_data(r, station_info) ==
    LET base ==
            [predictions |-> r.predictions[1],
             model_info |-> [selected_station |-> r.nearest_station,
                             station_coordinates |-> [lat |-> station_info.latitude,
                                                      lon |-> station_info.longitude],
                             distance_to_station |-> Round6(r.distance)],
             historical_data |-> HistoricalWeatherData_to_dict(r.historical_data[1]),
             total_predictions |-> r.predictions[1].n,
             input_coordinates |-> [latitude |-> r.weather_request[1].latitude,
                                    longitude |-> r.weather_request[1].longitude],
             requested_date |-> r.weather_request[1].date,
             analysis_included |-> r.analysis # None]
    IN IF r.analysis # None /\ Truthy(r.analysis[1])
       THEN Put(base, "agricultural_analysis", r.analysis[1])
       ELSE IF r.analysis_error # ""
       THEN Put(base, "analysis_error", r.analysis_error)
       ELSE base

\* Lines 91-123: get_station_info, response_data, the success response
AssembleResponse(h) ==
    /\ req[h].pc = "respond"
    /\ station_service
    /\ LET r == Enter(req[h], "respond")
           info == get_station_info(r.nearest_station)
       IN req' = [req EXCEPT ![h] =
              IF ~info.ok THEN HandleException(r, info.exc)
              ELSE Respond(r, 200,
                       APIResponse_to_dict(TRUE, response_data(r, info.val),
                                           "", EmptyDict))]
    /\ UNCHANGED <<app, gemini_api_key, served, disk, call>>

-----------------------------------------------------------------------------
(* The program                                                             *)

Init ==
    /\ models = EmptyDict
    /\ scalers = EmptyDict
    /\ loaded_stations = <<>>
    /\ failed_stations = <<>>
    /\ app = new_ServiceManager
    /\ gemini_api_key \in BOOLEAN
    /\ req = [h \in Handlers |-> Idle]
    /\ served = 0
    /\ disk \in ServedDisks
    /\ call = NoCall

Next ==
    \/ InitializeAll
    \/ LoadLstmModel
    \/ LoadScaler
    \/ StoreModel
    \/ StoreScaler
    \/ AppendLoaded
    \/ StartServing
    \/ \E h \in Handlers :
          \/ ValidateRequest(h)
          \/ LocateStation(h)
          \/ CheckAvailability(h)
          \/ GetModel(h)
          \/ FetchHistory(h)
          \/ Preprocess(h)
          \/ Predict(h)
          \/ ValidatePredictions(h)
          \/ Analyse(h)
          \/ AssembleResponse(h)

Spec == Init /\ [][Next]_vars

-----------------------------------------------------------------------------
(* routes/weather_routes.py: POST /weather_data, served by the same        *)
(* handler threads                                                         *)

\* Lines 44-55: the data of the success response
weather_data_response(weather_request, historical_data) ==
    [data |-> HistoricalWeatherData_to_dict(historical_data),
     total_records |-> historical_data.temperatures,
     coordinates |-> [latitude |-> weather_request.latitude,
                      longitude |-> weather_request.longitude],
     requested_date |-> weather_request.date]

\* get_weather_data(): validation as in predict(), then get_historical_data
\* and the response.
GetWeatherData(h) ==
    /\ app.pc = "running"
    /\ req[h].pc \in {"idle", "done"}
    /\ served < MaxServed
    /\ served' = served + 1
    /\ \E data \in RequestBodies :
          LET r == [Enter(NewRequest(data), "validate") EXCEPT
                       !.endpoint = "/weather_data"]
              e1 == validate_json_data(data)
              e2 == validate_required_fields(data, <<"date", "latitude", "longitude">>)
              wr == WeatherDataRequest(data)
          IN IF e1 # ""
             THEN req' = [req EXCEPT ![h] =
                     HandleException(r, Exc(e1, "Se requieren datos JSON validos"))]
             ELSE IF e2 # ""
             THEN req' = [req EXCEPT ![h] =
                     HandleException(r, Exc(e2, "Campos requeridos faltantes"))]
             ELSE IF ~wr.ok
             THEN req' = [req EXCEPT ![h] = HandleException(r, wr.exc)]
             ELSE \E answer \in ApiAnswers(StartDate(wr.val.date), EndDate(wr.val.date)) :
                     LET w == [wr.val EXCEPT !.include_analysis = TRUE]
                         got == get_historical_data(w.date, w.latitude, w.longitude, answer)
                         out == OutboundRequests(w.date, w.latitude, w.longitude, answer)
                         r1 == Log([Enter(r, "fetch") EXCEPT
                                       !.weather_request = Some(w),
                                       !.weather_calls = Len(out),
                                       !.outbound = out],
                                   get_historical_data_log(w.date, w.latitude,
                                                           w.longitude, answer))
                     IN req' = [req EXCEPT ![h] =
                            IF ~got.ok THEN HandleException(r1, got.exc)
                            ELSE Respond([r1 EXCEPT !.historical_data = Some(got.val)],
                                         200,
                                         APIResponse_to_dict(TRUE,
                                             weather_data_response(w, got.val),
                                             "", EmptyDict))]
    /\ UNCHANGED <<models, scalers, loaded_stations, failed_stations,
                   app, gemini_api_key, disk, call>>

\* The server answering both POST /predict and POST /weather_data, started
\* on a disk holding every artifact or on one where the model of M5023 is
\* missing.
ServerDisks == {Artifacts, Artifacts \ {ModelArtifact("M5023")}}

InitServer ==
    /\ models = EmptyDict
    /\ scalers = EmptyDict
    /\ loaded_stations = <<>>
    /\ failed_stations = <<>>
    /\ app = new_ServiceManager
    /\ gemini_api_key \in BOOLEAN
    /\ req = [h \in Handlers |-> Idle]
    /\ served = 0
    /\ disk \in ServerDisks
    /\ call = NoCall

NextServer ==
    \/ Next
    \/ \E h \in Handlers : GetWeatherData(h)

SpecServer == InitServer /\ [][NextServer]_vars

-----------------------------------------------------------------------------
(* The registry on its own: start-up on any disk, and direct calls of the  *)
(* two lookups of StationService with any station id.                      *)

\* A station id no configuration has.
StationIds == StationNames \cup {"P99"}

\* station_service.is_model_available(station_name), called directly
IsModelAvailable(station_name) ==
    /\ app.station_service
    /\ call' = [fn |-> "is_model_available", args |-> <<station_name>>,
                result |-> Some(is_model_available(station_name))]
    /\ UNCHANGED <<models, scalers, loaded_stations, failed_stations, app,
                   gemini_api_key, req, served, disk>>

\* station_service.get_model_and_scaler(station_name), called directly
GetModelAndScaler(station_name) ==
    /\ app.station_service
    /\ call' = [fn |-> "get_model_and_scaler", args |-> <<station_name>>,
                result |-> Some(get_model_and_scaler(station_name))]
    /\ UNCHANGED <<models, scalers, loaded_stations, failed_stations, app,
                   gemini_api_key, req, served, disk>>

InitRegistry ==
    /\ models = EmptyDict
    /\ scalers = EmptyDict
    /\ loaded_stations = <<>>
    /\ failed_stations = <<>>
    /\ app = new_ServiceManager
    /\ gemini_api_key = FALSE
    /\ req = [h \in Handlers |-> Idle]
    /\ served = 0
    /\ disk \in SUBSET Artifacts
    /\ call = NoCall

NextRegistry ==
    \/ InitializeAll
    \/ LoadLstmModel
    \/ LoadScaler
    \/ StoreModel
    \/ StoreScaler
    \/ AppendLoaded
    \/ StartServing
    \/ \E station_name \in StationIds :
          \/ IsModelAvailable(station_name)
          \/ GetModelAndScaler(station_name)

SpecRegistry == InitRegistry /\ [][NextRegistry]_vars

-----------------------------------------------------------------------------
(* The registry when the application factory is called more than once in   *)
(* a process: create_app() builds a new WeatherApp each time, and each      *)
(* calls initialize_all on the one service_manager of the module.          *)

\* Calls of create_app in one process.
MaxLoads == 2

\* create_app() once more, after an earlier call has returned:
\* initialize_all takes the StationService there is and load_all_models
\* starts again with the first station.
CreateAppAgain ==
    /\ app.pc \in {"loaded", "running"}
    /\ Len(loaded_stations) + Len(failed_stations)
          < MaxLoads * Len(get_station_names)
    /\ station_service
    /\ app' = [app EXCEPT !.pc = "load_model", !.i = 1]
    /\ UNCHANGED <<gemini_api_key, req, served, disk, call>>

NextReload ==
    \/ NextRegistry
    \/ CreateAppAgain

SpecReload == InitRegistry /\ [][NextReload]_vars

-----------------------------------------------------------------------------
(* The properties of ServiceManager read by the handler threads, statement *)
(* by statement: no lock is held between the test and the assignment.      *)

\* The instance in the private field of a service: 0 for None.
CurrentInstance(service) ==
    IF service = "station_service"
    THEN (IF app.station_service THEN 1 ELSE 0)
    ELSE app.services[service]

\* A handler reads service_manager.<service>.
ReadProperty(h, service) ==
    /\ app.pc = "running"
    /\ req[h].pc = "idle"
    /\ req' = [req EXCEPT ![h].pc = "property_test", ![h].service = service]
    /\ UNCHANGED <<models, scalers, loaded_stations, failed_stations, app,
                   gemini_api_key, served, disk, call>>

\* if self._<service> is None:
TestNone(h) ==
    /\ req[h].pc = "property_test"
    /\ req' = [req EXCEPT ![h].pc =
                  IF CurrentInstance(req[h].service) = 0
                  THEN "property_new" ELSE "property_return"]
    /\ UNCHANGED <<models, scalers, loaded_stations, failed_stations, app,
                   gemini_api_key, served, disk, call>>

\* self._<service> = <Service>()
NewService(h) ==
    /\ req[h].pc = "property_new"
    /\ LET service == req[h].service
       IN IF service = "station_service"
          THEN /\ new_StationService
               /\ app' = [app EXCEPT !.station_service = TRUE,
                                     !.built[service] = @ + 1]
          ELSE /\ app' = [app EXCEPT !.services[service] = app.built[service] + 1,
                                     !.built[service] = @ + 1]
               /\ UNCHANGED <<models, scalers, loaded_stations, failed_stations>>
    /\ req' = [req EXCEPT ![h].pc = "property_return"]
    /\ UNCHANGED <<gemini_api_key, served, disk, call>>

\* return self._<service>
ReturnService(h) ==
    /\ req[h].pc = "property_return"
    /\ req' = [req EXCEPT
                  ![h].pc = "idle", ![h].service = "",
                  ![h].observed[req[h].service] =
                      @ \cup {CurrentInstance(req[h].service)}]
    /\ UNCHANGED <<models, scalers, loaded_stations, failed_stations, app,
                   gemini_api_key, served, disk, call>>

\* Start-up with every artifact on the disk, then the handler threads.
InitServices ==
    /\ models = EmptyDict
    /\ scalers = EmptyDict
    /\ loaded_stations = <<>>
    /\ failed_stations = <<>>
    /\ app = new_ServiceManager
    /\ gemini_api_key = FALSE
    /\ req = [h \in Handlers |-> Idle]
    /\ served = 0
    /\ disk = Artifacts
    /\ call = NoCall

NextServices ==
    \/ InitializeAll
    \/ LoadLstmModel
    \/ LoadScaler
    \/ StoreModel
    \/ StoreScaler
    \/ AppendLoaded
    \/ StartServing
    \/ \E h \in Handlers :
          \/ \E service \in Services : ReadProperty(h, service)
          \/ TestNone(h)
          \/ NewService(h)
          \/ ReturnService(h)

SpecServices == InitServices /\ [][NextServices]_vars

-----------------------------------------------------------------------------
(* Direct calls of the methods that compute on their arguments alone.      *)

\* The query points: a lattice over the region of the stations, the
\* stations themselves, the points half-way between two neighbouring
\* stations, a point whose nearest station differs between the two
\* metrics, and a point on the latitude of a station.
QueryPoints ==
    {pt(-45000 + 2500 * i, -7825000 + 1500 * j) : i \in 0..8, j \in 0..10}
    \cup {pt(STATIONS_COORDINATES[s].lat, STATIONS_COORDINATES[s].lon) :
              s \in StationNames}
    \cup {pt(-35675, -7819720), pt(-38035, -7816850), pt(-32715, -7819510)}
    \cup {pt(-34110, -7815490), pt(-38090, -7820000)}

\* station_service.find_nearest_station(target_lat, target_lon)
FindNearestStation(target_lat, target_lon) ==
    /\ call = NoCall
    /\ call' = [fn |-> "find_nearest_station",
                args |-> <<target_lat, target_lon>>,
                result |-> Some(find_nearest_station(target_lat, target_lon))]
    /\ UNCHANGED <<models, scalers, loaded_stations, failed_stations, app,
                   gemini_api_key, req, served, disk>>

\* The normalized series handed to _create_sequences: up to MaxExtraRows
\* rows more than one window, the rows all different or all alike.
MaxExtraRows == 5

ScaledSeries ==
    {[i \in 1..L |-> base + step * i] :
        L \in 0..(TIME_STEP + MaxExtraRows), base \in {0, 7}, step \in {0, 1}}

\* prediction_service._create_sequences(data_scaled)
CreateSequences(data_scaled) ==
    /\ call = NoCall
    /\ call' = [fn |-> "_create_sequences", args |-> <<data_scaled>>,
                result |-> Some(create_sequences_rows(data_scaled))]
    /\ UNCHANGED <<models, scalers, loaded_stations, failed_stations, app,
                   gemini_api_key, req, served, disk>>

\* The columns handed to interpolate_missing_values: every list of up to
\* MaxColumnLen entries.
MaxColumnLen == 5

ColumnEntries == {FloatNone, FloatNaN, Float(0), Float(60), Float(240)}

RECURSIVE ListsOf(_, _)
\* the lists of exactly n entries
ListsOf(entries, n) ==
    IF n = 0 THEN {<<>>}
    ELSE {Append(l, e) : l \in ListsOf(entries, n - 1), e \in entries}

Columns == UNION {ListsOf(ColumnEntries, n) : n \in 0..MaxColumnLen}

\* DataCleaner.interpolate_missing_values(data)
InterpolateMissingValues(data) ==
    /\ call = NoCall
    /\ call' = [fn |-> "interpolate_missing_values", args |-> <<data>>,
                result |-> Some(interpolate_missing_values(data))]
    /\ UNCHANGED <<models, scalers, loaded_stations, failed_stations, app,
                   gemini_api_key, req, served, disk>>

\* The hourly arrays handed to _clean_numeric_data: every list of up to
\* MaxSeriesLen items.
MaxSeriesLen == 4

SeriesItems == {JsonNull, JsonNumber(0), JsonNumber(17), JsonNumeral(5), JsonText, JsonList}

HourlyArrays == UNION {ListsOf(SeriesItems, n) : n \in 0..MaxSeriesLen}

\* weather_service._clean_numeric_data(data)
CleanNumericData(data) ==
    /\ call = NoCall
    /\ call' = [fn |-> "_clean_numeric_data", args |-> <<data>>,
                result |-> Some(clean_numeric_data_items(data))]
    /\ UNCHANGED <<models, scalers, loaded_stations, failed_stations, app,
                   gemini_api_key, req, served, disk>>

\* The batches handed to validate_predictions: up to MaxBatchRows rows of
\* precipitation, temperature and humidity, the temperatures on, just
\* inside and just outside the limits of -50 and 60 degrees.
MaxBatchRows == 2

PredictionRows ==
    {<<p, t, hum>> :
        p \in {Float(70 * 60), FloatNaN, FloatInf},
        t \in {Float(-50 * 60 - 1), Float(-50 * 60), Float(20 * 60),
                Float(60 * 60), Float(60 * 60 + 1), FloatNegInf},
        hum \in {Float(80 * 60)}}

PredictionBatches == UNION {ListsOf(PredictionRows, n) : n \in 0..MaxBatchRows}

\* prediction_service.validate_predictions(predictions)
ValidatePredictionBatch(predictions) ==
    /\ call = NoCall
    /\ call' = [fn |-> "validate_predictions", args |-> <<predictions>>,
                result |-> Some(validate_predictions_rows(predictions))]
    /\ UNCHANGED <<models, scalers, loaded_stations, failed_stations, app,
                   gemini_api_key, req, served, disk>>

\* The arguments handed to get_historical_data: dates that parse, a month
\* and a day that do not exist and a string of another shape; coordinates
\* inside the ranges, on their limits and just outside.
HistoryDates ==
    {DateStr(2024, 6, 1), DateStr(2024, 13, 1), DateStr(2023, 2, 29), Unformatted}

HistoryLatitudes == {-35000, 9000000, 9000001, -9000001}

HistoryLongitudes == {-7817000, -18000000, 18000001}

\* weather_service.get_historical_data(date_str, lat, lon): what it returns
\* or raises, and the requests it sent, for each answer the archive can
\* give if it is asked.
GetHistoricalData(date_str, lat, lon) ==
    /\ call = NoCall
    /\ \E answer \in (IF Parses(date_str)
                       THEN ApiAnswers(StartDate(date_str), EndDate(date_str))
                       ELSE ApiAnswers(0, 0)) :
          call' = [fn |-> "get_historical_data", args |-> <<date_str, lat, lon>>,
                   result |-> Some([outcome |-> get_historical_data(date_str, lat,
                                                                    lon, answer),
                                    outbound |-> OutboundRequests(date_str, lat,
                                                                  lon, answer)])]
    /\ UNCHANGED <<models, scalers, loaded_stations, failed_stations, app,
                   gemini_api_key, req, served, disk>>

\* The call has returned; the next one can be made.
ForgetCall ==
    /\ call # NoCall
    /\ call' = NoCall
    /\ UNCHANGED <<models, scalers, loaded_stations, failed_stations, app,
                   gemini_api_key, req, served, disk>>

InitCalls ==
    /\ models = EmptyDict
    /\ scalers = EmptyDict
    /\ loaded_stations = <<>>
    /\ failed_stations = <<>>
    /\ app = new_ServiceManager
    /\ gemini_api_key = FALSE
    /\ req = [h \in Handlers |-> Idle]
    /\ served = 0
    /\ disk = Artifacts
    /\ call = NoCall

NextCalls ==
    \/ \E p \in QueryPoints : FindNearestStation(p.lat, p.lon)
    \/ \E data_scaled \in ScaledSeries : CreateSequences(data_scaled)
    \/ \E data \in Columns : InterpolateMissingValues(data)
    \/ \E data \in HourlyArrays : CleanNumericData(data)
    \/ \E predictions \in PredictionBatches : ValidatePredictionBatch(predictions)
    \/ \E date_str \in HistoryDates, lat \in HistoryLatitudes,
          lon \in HistoryLongitudes : GetHistoricalData(date_str, lat, lon)
    \/ ForgetCall

SpecCalls == InitCalls /\ [][NextCalls]_vars

-----------------------------------------------------------------------------
(* Properties                                                              *)

Done(h) == req[h].pc = "done"
Status(h) == req[h].response[1].status
Body(h) == req[h].response[1].body
InTrace(h, stage) == stage \in Range(req[h].trace)

\* The request is a JSON object holding the three required fields.
WellFormed(data) ==
    /\ data.kind = "dict"
    /\ {"date", "latitude", "longitude"} \subseteq DOMAIN data.fields

\* The request passes stage 1: well formed, numeric coordinates in range and
\* a date that parses.
Acceptable(data) ==
    /\ WellFormed(data)
    /\ data.fields["latitude"].num
    /\ data.fields["longitude"].num
    /\ Parses(data.fields["date"])
    /\ data.fields["latitude"].v \in -9000000..9000000
    /\ data.fields["longitude"].v \in -18000000..18000000

Dist(data, s) ==
    calculate_euclidean_distance(data.fields["latitude"].v, data.fields["longitude"].v,
                                 STATIONS_COORDINATES[s].lat, STATIONS_COORDINATES[s].lon)

\* The configured stations no other configured station is nearer than.
NearestStations(data) ==
    {s \in StationNames : \A t \in StationNames : Dist(data, s) <= Dist(data, t)}

\* The stations whose model and scaler are both in the registry.
Available == (DOMAIN models) \cap (DOMAIN scalers)

PipelineOrder ==
    <<"validate", "locate", "check", "get_model", "fetch", "preprocess",
      "predict", "validate_predictions", "analysis", "respond">>

PipelineWithoutAnalysis ==
    <<"validate", "locate", "check", "get_model", "fetch", "preprocess",
      "predict", "validate_predictions", "respond">>

IsPrefix(t, order) == Len(t) <= Len(order) /\ t = SubSeq(order, 1, Len(t))

\* C1: the stages of a /predict request run in the fixed order validate,
\* locate, check availability, (get model,) fetch, preprocess, predict,
\* validate predictions, optional analysis, respond; a stage has started only
\* if every earlier stage succeeded, so after a failure no weather call, model
\* run or analysis call is made; and a request has exactly one response when
\* it is done and none before.
C1_StagesInOrder ==
    \A h \in Handlers :
        LET r == req[h]
        IN /\ \/ IsPrefix(r.trace, PipelineOrder)
              \/ IsPrefix(r.trace, PipelineWithoutAnalysis)
           /\ r.pc \notin {"idle", "done"} =>
                 /\ r.trace # <<>>
                 /\ \/ r.pc = PipelineNext(r.trace[Len(r.trace)])
                    \/ /\ r.pc = "respond"          \* analysis not asked for
                       /\ r.trace[Len(r.trace)] = "validate_predictions"
                       /\ ~r.weather_request[1].include_analysis
           /\ InTrace(h, "locate") => r.weather_request # None
           /\ InTrace(h, "get_model") =>
                 r.nearest_station \in Available
           /\ InTrace(h, "fetch") => r.model # None /\ r.scaler # None
           /\ InTrace(h, "preprocess") => r.historical_data # None
           /\ InTrace(h, "predict") => r.X_test > 0
           /\ InTrace(h, "validate_predictions") => r.predictions # None
           /\ (InTrace(h, "analysis") \/ InTrace(h, "respond")) =>
                 validate_predictions(r.predictions[1])
           /\ r.weather_calls = (IF InTrace(h, "fetch") THEN 1 ELSE 0)
           /\ r.model_runs = (IF InTrace(h, "predict") THEN 1 ELSE 0)
           /\ r.analysis_calls = (IF InTrace(h, "analysis") THEN 1 ELSE 0)
           /\ r.responses = (IF r.pc = "done" THEN 1 ELSE 0)
           /\ (r.response # None) <=> (r.pc = "done")
           /\ (r.pc = "done" /\ Status(h) = 200) => InTrace(h, "respond")

\* A request that failed at the fetch stage has run the five stages up to
\* it and nothing later.
C1_Witness ==
    \E h \in Handlers :
        /\ Done(h)
        /\ Status(h) = 500
        /\ req[h].trace = SubSeq(PipelineOrder, 1, 5)
        /\ req[h].model_runs = 0

\* C2: a valid request whose nearest station has no model/scaler pair is
\* answered 503 with success false and details holding the nearest station,
\* its distance, and exactly the available stations; the nearest station is
\* not among them, and no weather request was issued.
C2_Unavailable503 ==
    \A h \in Handlers :
        (/\ Done(h)
         /\ Acceptable(req[h].data)
         /\ NearestStations(req[h].data) \cap Available = {})
        => /\ Status(h) = 503
           /\ Body(h)["success"] = FALSE
           /\ "details" \in DOMAIN Body(h)
           /\ Body(h)["details"].nearest_station \in NearestStations(req[h].data)
           /\ Body(h)["details"].distance =
                  Round6(Dist(req[h].data, Body(h)["details"].nearest_station))
           /\ Range(Body(h)["details"].available_stations) = Available
           /\ Body(h)["details"].nearest_station
                  \notin Range(Body(h)["details"].available_stations)
           /\ req[h].weather_calls = 0

\* A 503 answer that lists some available station.
C2_Witness ==
    \E h \in Handlers :
        /\ Done(h)
        /\ Status(h) = 503
        /\ Body(h)["details"].available_stations # <<>>

\* C3: a request whose date does not parse or whose latitude or longitude is
\* out of range is answered 400 with success false, with no station lookup
\* and no fetch.
C3_BadValues400 ==
    \A h \in Handlers :
        (/\ Done(h)
         /\ WellFormed(req[h].data)
         /\ req[h].data.fields["latitude"].num
         /\ req[h].data.fields["longitude"].num
         /\ ~Acceptable(req[h].data))
        => /\ Status(h) = 400
           /\ Body(h)["success"] = FALSE
           /\ ~InTrace(h, "locate")
           /\ req[h].weather_calls = 0

C5_InvalidBatch500 ==
    \A h \in Handlers :
        (/\ InTrace(h, "validate_predictions")
         /\ ~validate_predictions(req[h].predictions[1]))
        => /\ Done(h)
           /\ Status(h) = 500
           /\ Body(h)["success"] = FALSE
           /\ DOMAIN Body(h) \cap {"predictions", "model_info", "historical_data"} = {}
           /\ req[h].analysis_calls = 0

\* A batch holding a NaN or an infinity was produced and the request is done.
C5_Witness ==
    \E h \in Handlers :
        /\ Done(h)
        /\ req[h].predictions # None
        /\ req[h].predictions[1].nonfinite
        /\ Status(h) = 500

\* C6: once the analysis adapter has been invoked (stages 1-6 succeeded),
\* the request ends with success true and the predictions, whatever the
\* adapter did; a failed adapter leaves no agricultural_analysis.
C6_AnalysisNeverFails ==
    \A h \in Handlers :
        (InTrace(h, "analysis") /\ Done(h))
        => /\ Status(h) = 200
           /\ Body(h)["success"] = TRUE
           /\ "predictions" \in DOMAIN Body(h)
           /\ Body(h)["predictions"] = req[h].predictions[1]
           /\ req[h].analysis = None => "agricultural_analysis" \notin DOMAIN Body(h)
           /\ "analysis_error" \in DOMAIN Body(h) => req[h].analysis_error # ""

\* The text service raised, with the key configured, and the request
\* succeeded with an analysis_error.
C6_Witness ==
    \E h \in Handlers :
        /\ Done(h)
        /\ gemini_api_key
        /\ InTrace(h, "analysis")
        /\ req[h].analysis = None
        /\ Status(h) = 200
        /\ "analysis_error" \in DOMAIN Body(h)

\* C7: a success response holds predictions, model_info.selected_station,
\* model_info.distance_to_station and historical_data; the selected station
\* is the one find_nearest_station returns for the request's coordinates, a
\* configured and available station no other station is nearer than; the
\* distance is the one to that station; historical_data is what was fetched
\* for this request's coordinates and window; total_predictions is the
\* number of predictions.
C7_SuccessResponse ==
    \A h \in Handlers :
        (Done(h) /\ Status(h) = 200)
        => LET b == Body(h)
               wr == req[h].weather_request[1]
               sel == b["model_info"].selected_station
           IN /\ b["success"] = TRUE
              /\ {"predictions", "model_info", "historical_data",
                  "total_predictions"} \subseteq DOMAIN b
              /\ sel = find_nearest_station(wr.latitude, wr.longitude).station
              /\ sel \in NearestStations(req[h].data)
              /\ sel \in StationNames
              /\ sel \in Available
              /\ b["model_info"].distance_to_station = Round6(Dist(req[h].data, sel))
              /\ b["historical_data"] =
                     HistoricalWeatherData_to_dict(req[h].historical_data[1])
              /\ req[h].historical_data[1].query =
                     [latitude |-> wr.latitude, longitude |-> wr.longitude,
                      start_date |-> Ordinal(wr.date) - HISTORICAL_DAYS,
                      end_date |-> Ordinal(wr.date)]
              /\ b["total_predictions"] = b["predictions"].n
              /\ b["predictions"] = req[h].predictions[1]

\* A success response for a request that is not at a station.
C7_Witness ==
    \E h \in Handlers :
        /\ Done(h)
        /\ Status(h) = 200
        /\ Body(h)["model_info"].distance_to_station > 0

\* C8: when the archive returned 24 samples for each day of the window from
\* start_date through end_date, the success response holds
\* HISTORICAL_DAYS*24 - TIME_STEP + 1 predictions.
C8_PredictionCount ==
    \A h \in Handlers :
        (/\ Done(h)
         /\ Status(h) = 200
         /\ LET hd == req[h].historical_data[1]
                n == 24 * (hd.end_date - hd.start_date + 1)
            IN hd.temperatures = n /\ hd.precipitations = n /\ hd.humidity = n)
        => Body(h)["predictions"].n = HISTORICAL_DAYS * 24 - TIME_STEP + 1

\* C9: start-up never raises, whatever loads; afterwards a valid request is
\* answered 503 exactly when its nearest station is not loaded, and the
\* model and scaler a request holds are those of its nearest station.
C9_PartialAvailability ==
    /\ app.pc # "crashed"
    /\ app.pc = "running" =>
           Range(loaded_stations) \cup Range(failed_stations) = StationNames
    /\ \A h \in Handlers :
          /\ (Done(h) /\ Acceptable(req[h].data)) =>
                 (Status(h) = 503 <=>
                      NearestStations(req[h].data) \cap Available = {})
          /\ req[h].model # None =>
                 /\ \E s \in NearestStations(req[h].data) \cap Available :
                       /\ req[h].model = Some(ModelArtifact(s))
                       /\ req[h].scaler = Some(ScalerArtifact(s))
          /\ req[h].model_runs > 0 => req[h].model # None

\* With some stations loaded and some not, one request was served with its
\* nearest station's model and another was answered 503.
C9_Witness ==
    \E h1, h2 \in Handlers :
        /\ Done(h1) /\ Status(h1) = 200 /\ req[h1].model_runs = 1
        /\ Done(h2) /\ Status(h2) = 503
        /\ failed_stations # <<>>

\* C10: once the server is running, no step of any handler, in any
\* interleaving, changes models, scalers, loaded_stations or failed_stations,
\* and the loading does not run again.
C10_RegistryReadOnly ==
    [][app.pc = "running" =>
          /\ models' = models
          /\ scalers' = scalers
          /\ loaded_stations' = loaded_stations
          /\ failed_stations' = failed_stations
          /\ app' = app]_vars

\* Two handlers are in the middle of their requests over a registry that
\* holds some station.
C10_Witness ==
    /\ app.pc = "running"
    /\ loaded_stations # <<>>
    /\ \A h \in Handlers : req[h].pc \in {"check", "get_model", "fetch", "respond"}
    /\ \E h \in Handlers : req[h].pc = "respond"

-----------------------------------------------------------------------------
(* The registry                                                            *)

NoDuplicates(l) == \A i, j \in 1..Len(l) : l[i] = l[j] => i = j

\* Both artifacts of the station load.
BothOnDisk(s) == ModelArtifact(s) \in disk /\ ScalerArtifact(s) \in disk

\* The stations whose iteration of load_all_models is over.
Attempted ==
    IF app.pc = "init" THEN {}
    ELSE IF app.pc \in {"loaded", "running"} THEN StationNames
    ELSE {get_station_names[i] : i \in 1..(app.i - 1)}

\* load_all_models has loaded both artifacts of the station and stored them.
Registered(s) ==
    /\ s \in StationNames
    /\ BothOnDisk(s)
    /\ \/ s \in Attempted
       \/ app.pc = "append_loaded" /\ s = CurrentStation

\* C11: once its iteration of load_all_models is over (and so, after
\* load_all_models, for every configured station) a station is in exactly
\* one of loaded_stations and failed_stations: in loaded_stations iff both
\* its artifacts loaded, in failed_stations iff one of them did not.  No
\* station is listed twice, and load_all_models ends with every station
\* listed, whatever failed before it.
C11_LoadPartition ==
    /\ NoDuplicates(loaded_stations)
    /\ NoDuplicates(failed_stations)
    /\ Range(loaded_stations) \cap Range(failed_stations) = {}
    /\ \A s \in Attempted :
          /\ s \in Range(loaded_stations) <=> BothOnDisk(s)
          /\ s \in Range(failed_stations) <=> ~BothOnDisk(s)
    /\ app.pc \in {"loaded", "running"} =>
          Range(loaded_stations) \cup Range(failed_stations) = StationNames

\* load_all_models is over: the first station failed for want of its model,
\* the second for want of its scaler only, and the last one was loaded.
C11_Witness ==
    /\ app.pc = "loaded"
    /\ ModelArtifact("M5023") \notin disk
    /\ ModelArtifact("M5025") \in disk /\ ScalerArtifact("M5025") \notin disk
    /\ failed_stations = <<"M5023", "M5025">>
    /\ "P63" \in Range(loaded_stations)

\* C12: in every registry state and for every station id, configured or
\* not, is_model_available is true iff load_all_models loaded both the model
\* and the scaler of that station and stored them.
C12_AvailableIffBothLoaded ==
    \A s \in StationIds : is_model_available(s) <=> Registered(s)

\* is_model_available was called and said yes for P34, while M5023, whose
\* model file loads but whose scaler does not, is not available.
C12_Witness ==
    /\ app.pc = "running"
    /\ call.fn = "is_model_available"
    /\ call.args = <<"P34">>
    /\ call.result = Some(TRUE)
    /\ is_model_available("P34")
    /\ ModelArtifact("M5023") \in disk
    /\ ~is_model_available("M5023")
    /\ ~is_model_available("P99")

\* C13: a call of get_model_and_scaler leaves the registry as it was; it
\* raises (ValueError) exactly when is_model_available says no for the
\* station, and otherwise returns the model and the scaler loaded from that
\* station's own files.
C13_GetModelAndScaler ==
    [][(call' # call /\ call'.fn = "get_model_and_scaler") =>
          LET station_name == call'.args[1]
              r == call'.result[1]
          IN /\ models' = models
             /\ scalers' = scalers
             /\ loaded_stations' = loaded_stations
             /\ failed_stations' = failed_stations
             /\ r.ok <=> is_model_available(station_name)
             /\ ~r.ok => r.exc.type = "ValueError"
             /\ r.ok => r.val = [model |-> ModelArtifact(station_name),
                                  scaler |-> ScalerArtifact(station_name)]]_vars

\* get_model_and_scaler raised for a configured station that did not load,
\* over a registry that holds the pair of another station.
C13_Witness ==
    /\ app.pc = "running"
    /\ call.fn = "get_model_and_scaler"
    /\ call.args = <<"M5025">>
    /\ ~call.result[1].ok
    /\ ~is_model_available("M5025")
    /\ is_model_available("P63")

-----------------------------------------------------------------------------
(* The station locator                                                     *)

\* The squared degree-space distance from a point to a configured station.
EuclidTo(p, s) ==
    (p.lat - STATIONS_COORDINATES[s].lat) * (p.lat - STATIONS_COORDINATES[s].lat)
    + (p.lon - STATIONS_COORDINATES[s].lon) * (p.lon - STATIONS_COORDINATES[s].lon)

HaversineTo(p, s) ==
    calculate_haversine_distance(p.lat, p.lon, STATIONS_COORDINATES[s].lat,
                                 STATIONS_COORDINATES[s].lon)

\* The stations no station is strictly nearer than, under the Euclidean metric.
JointlyNearest(p) ==
    {s \in StationNames : \A t \in StationNames : EuclidTo(p, s) <= EuclidTo(p, t)}

Located == call.fn = "find_nearest_station"
LocatedPoint == pt(call.args[1], call.args[2])
LocatedResult == call.result[1]

\* C14: find_nearest_station returns a configured station and a distance
\* that is not negative, and that is 0 exactly when the query point is the
\* position of a configured station.
C14_NearestIsConfigured ==
    Located =>
        /\ LocatedResult.station \in StationNames
        /\ LocatedResult.distance >= 0
        /\ LocatedResult.distance = 0 <=>
               \E s \in StationNames :
                   /\ STATIONS_COORDINATES[s].lat = LocatedPoint.lat
                   /\ STATIONS_COORDINATES[s].lon = LocatedPoint.lon

\* The query point is the position of P63, the last configured station.
C14_Witness ==
    /\ Located
    /\ LocatedPoint = pt(-32060, -7819170)
    /\ LocatedResult = [station |-> "P63", distance |-> 0]

\* C15: no configured station is strictly nearer to the query point, in
\* degree-space Euclidean distance, than the station find_nearest_station
\* returns, and the distance returned is the distance to that station; this
\* also where the haversine distance orders the stations otherwise.
C15_NearestMinimises ==
    Located =>
        /\ \A s \in StationNames :
               EuclidTo(LocatedPoint, LocatedResult.station) <= EuclidTo(LocatedPoint, s)
        /\ LocatedResult.distance = EuclidTo(LocatedPoint, LocatedResult.station)

\* At (-0.3411, -78.1549) P34 is the nearest station in degree-space and
\* P63 the nearest by haversine distance: P34 is returned.
C15_Witness ==
    /\ Located
    /\ LocatedPoint = pt(-34110, -7815490)
    /\ LocatedResult.station = "P34"
    /\ HaversineLess(HaversineTo(LocatedPoint, "P63"), HaversineTo(LocatedPoint, "P34"))

\* C16: when several stations are jointly nearest to the query point, the
\* one that comes first in STATIONS_COORDINATES is returned.
C16_TieFirstConfigured ==
    Located =>
        /\ LocatedResult.station \in JointlyNearest(LocatedPoint)
        /\ \A s \in JointlyNearest(LocatedPoint) :
               StationIndex(LocatedResult.station) <= StationIndex(s)

\* Half-way between M5025 and P63, which are jointly nearest: M5025, the
\* earlier of the two, is returned.
C16_Witness ==
    /\ Located
    /\ JointlyNearest(LocatedPoint) = {"M5025", "P63"}
    /\ LocatedResult.station = "M5025"

-----------------------------------------------------------------------------
(* Windows, interpolation and cleaning                                     *)

\* C17: on a series of L rows _create_sequences raises (ValueError,
\* "Datos insuficientes") when L < TIME_STEP; otherwise it returns
\* L - TIME_STEP + 1 windows, the i-th holding the TIME_STEP rows that start
\* at row i, in their order.
C17_Windows ==
    call.fn = "_create_sequences" =>
        LET data_scaled == call.args[1]
            L == Len(data_scaled)
            r == call.result[1]
        IN /\ r.ok <=> L >= TIME_STEP
           /\ r.ok = create_sequences(L).ok
           /\ ~r.ok => r.exc.type = "ValueError"
           /\ r.ok =>
                 /\ Len(r.val) = L - TIME_STEP + 1
                 /\ create_sequences(L).val = Len(r.val)
                 /\ \A i \in 1..Len(r.val) :
                       /\ Len(r.val[i]) = TIME_STEP
                       /\ \A k \in 1..TIME_STEP :
                             r.val[i][k] = data_scaled[i + k - 1]

\* Two rows more than one window, all rows different: three windows, the
\* last one ending with the last row.
C17_Witness ==
    /\ call.fn = "_create_sequences"
    /\ Len(call.args[1]) = TIME_STEP + 2
    /\ call.args[1][1] # call.args[1][2]
    /\ call.result[1].ok
    /\ Len(call.result[1].val) = 3
    /\ call.result[1].val[3][TIME_STEP] = call.args[1][TIME_STEP + 2]

SetMax(S) == CHOOSE x \in S : \A y \in S : y <= x
SetMin(S) == CHOOSE x \in S : \A y \in S : x <= y

\* C18: interpolate_missing_values returns a column of the same length in
\* which every valid entry is as it was.  With fewer than two valid entries
\* the column is returned as it was.  Otherwise no missing entry remains: one
\* between two valid neighbours lies on the line through the nearest valid
\* entry on each side, and one with valid entries on one side only takes the
\* value of the nearest of them.
C18_Interpolation ==
    call.fn = "interpolate_missing_values" =>
        LET data == call.args[1]
            out == call.result[1]
            valid == {i \in 1..Len(data) : data[i].kind = "float"}
        IN /\ Len(out) = Len(data)
           /\ \A i \in valid : out[i] = data[i]
           /\ Cardinality(valid) < 2 => out = data
           /\ Cardinality(valid) >= 2 =>
                 \A i \in (1..Len(data)) \ valid :
                     LET left == {j \in valid : j < i}
                         right == {j \in valid : j > i}
                     IN /\ out[i].kind = "float"
                        /\ (left # {} /\ right # {}) =>
                              (SetMin(right) - SetMax(left))
                                  * (out[i].v - data[SetMax(left)].v)
                              = (data[SetMin(right)].v - data[SetMax(left)].v)
                                  * (i - SetMax(left))
                        /\ (left # {} /\ right = {}) => out[i] = data[SetMax(left)]
                        /\ (left = {} /\ right # {}) => out[i] = data[SetMin(right)]

\* [None, 1, NaN, None, 4] becomes [1, 1, 2, 3, 4].
C18_Witness ==
    /\ call.fn = "interpolate_missing_values"
    /\ call.args[1] = <<FloatNone, Float(60), FloatNaN, FloatNone, Float(240)>>
    /\ call.result[1] = <<Float(60), Float(60), Float(120), Float(180), Float(240)>>

\* C19: the three series of every HistoricalWeatherData the fetcher produces
\* have the same length, and no other reaches the preprocessor.
C19_EqualSeries ==
    \A h \in Handlers :
        req[h].historical_data # None =>
            LET hd == req[h].historical_data[1]
            IN /\ hd.temperatures = hd.precipitations
               /\ hd.precipitations = hd.humidity

ArchiveAnswers(h) == {req[h].outbound[i].answer : i \in 1..Len(req[h].outbound)}

\* A JSON answer without 'hourly', or whose 'hourly' lacks one of the three
\* series.
Incomplete(answer) ==
    /\ answer.kind = "json"
    /\ \/ ~answer.hourly
       \/ ~({"temperature_2m", "precipitation", "relative_humidity_2m"}
               \subseteq answer.keys)

\* C21: when the archive's answer lacks 'hourly' or one of temperature_2m,
\* precipitation and relative_humidity_2m, get_historical_data fails: the
\* request, POST /predict or POST /weather_data, has no HistoricalWeatherData
\* and is answered with success false.
C21_IncompleteAnswerFails ==
    \A h \in Handlers :
        (\E answer \in ArchiveAnswers(h) : Incomplete(answer))
        => /\ req[h].historical_data = None
           /\ Done(h)
           /\ Body(h)["success"] = FALSE
           /\ Status(h) = 500
           /\ ~InTrace(h, "preprocess")

\* A /weather_data request answered by an 'hourly' without precipitation,
\* and a /predict request answered without 'hourly'.
C21_Witness ==
    \E h1, h2 \in Handlers :
        /\ req[h1].endpoint = "/weather_data"
        /\ \E answer \in ArchiveAnswers(h1) :
              answer.hourly /\ "precipitation" \notin answer.keys
        /\ Done(h1) /\ Body(h1)["success"] = FALSE
        /\ req[h2].endpoint = "/predict"
        /\ \E answer \in ArchiveAnswers(h2) :
              answer.kind = "json" /\ ~answer.hourly
        /\ Done(h2) /\ Body(h2)["success"] = FALSE

\* C22: a call of get_historical_data sends at most one request to the
\* archive, with the configured timeout; when the request fails (network
\* error, timeout, HTTP error status) the error propagates and no second
\* request is sent; so a POST /predict or POST /weather_data request causes
\* at most one outbound request.
C22_OneRequestNoRetry ==
    \A h \in Handlers :
        /\ Len(req[h].outbound) <= 1
        /\ req[h].weather_calls = Len(req[h].outbound)
        /\ \A i \in 1..Len(req[h].outbound) :
              /\ req[h].outbound[i].request.timeout = OPEN_METEO_TIMEOUT
              /\ req[h].outbound[i].answer.kind = "error"
                 => /\ Done(h)
                    /\ Status(h) = 500
                    /\ Body(h)["success"] = FALSE
                    /\ req[h].historical_data = None

\* Both handlers have answered a request whose one outbound request failed,
\* one on each route.
C22_Witness ==
    \E h1, h2 \in Handlers :
        /\ req[h1].endpoint = "/predict" /\ req[h2].endpoint = "/weather_data"
        /\ \A h \in {h1, h2} :
              /\ Done(h)
              /\ Len(req[h].outbound) = 1
              /\ req[h].outbound[1].answer.kind = "error"
              /\ Body(h)["success"] = FALSE

\* C23: validate_predictions answers false for an empty batch, for a batch
\* holding a NaN or an infinity in any component, and for one holding a
\* temperature (second component of a row) below -50 or above 60; it
\* answers true for every other batch, which is non-empty, finite
\* throughout and has all its temperatures in [-50, 60], limits included.
C23_ValidatePredictions ==
    call.fn = "validate_predictions" =>
        LET predictions == call.args[1]
            empty == predictions = <<>>
            nonfinite == \E i \in 1..Len(predictions) : \E j \in 1..3 :
                            predictions[i][j].kind # "float"
            outside == \E i \in 1..Len(predictions) :
                          /\ predictions[i][2].kind = "float"
                          /\ predictions[i][2].v \notin (-50 * 60)..(60 * 60)
        IN call.result[1] = ~(empty \/ nonfinite \/ outside)

\* A batch with the temperatures -50 and 60 was found valid.
C23_Witness ==
    /\ call.fn = "validate_predictions"
    /\ call.args[1] = << <<Float(70 * 60), Float(-50 * 60), Float(80 * 60)>>,
                         <<Float(70 * 60), Float(60 * 60), Float(80 * 60)>> >>
    /\ call.result[1] = TRUE

\* The history is a table of fewer than TIME_STEP rows.
ShortHistory(hd) ==
    /\ hd.temperatures < TIME_STEP
    /\ hd.precipitations = hd.temperatures
    /\ hd.humidity = hd.temperatures

\* C24: a /predict request whose fetch failed, or whose fetch returned fewer
\* than TIME_STEP rows, is answered 500 with success false and without
\* predictions, and the model is never run for it.
C24_NoHistoryNoPrediction ==
    \A h \in Handlers :
        (/\ req[h].endpoint = "/predict"
         /\ InTrace(h, "fetch")
         /\ \/ req[h].historical_data = None
            \/ ShortHistory(req[h].historical_data[1]))
        => /\ req[h].model_runs = 0
           /\ ~InTrace(h, "predict")
           /\ req[h].predictions = None
           /\ req[h].pc \in {"preprocess", "done"}
           /\ Done(h) => /\ Status(h) = 500
                         /\ Body(h)["success"] = FALSE
                         /\ "predictions" \notin DOMAIN Body(h)

\* One request failed in the fetch and another got TIME_STEP - 1 rows; both
\* were answered 500.
C24_Witness ==
    \E h1, h2 \in Handlers :
        /\ Done(h1) /\ InTrace(h1, "fetch") /\ req[h1].historical_data = None
        /\ Status(h1) = 500
        /\ Done(h2) /\ req[h2].historical_data # None
        /\ req[h2].historical_data[1].temperatures = TIME_STEP - 1
        /\ ShortHistory(req[h2].historical_data[1])
        /\ Status(h2) = 500 /\ req[h2].model_runs = 0

\* C25: every failure response of /predict (400, 503 or 500) has an entry
\* of level warning or error written to the log before the response is
\* returned; and a failure of the analysis, the only one reported in a
\* success response, is logged as a warning.
C25_FailuresLogged ==
    \A h \in Handlers :
        (Done(h) /\ req[h].endpoint = "/predict") =>
            /\ Status(h) \in {400, 503, 500} =>
                  \E i \in 1..Len(req[h].log) : req[h].log[i] \in {"warning", "error"}
            /\ (Status(h) = 200 /\ "analysis_error" \in DOMAIN Body(h)) =>
                  \E i \in 1..Len(req[h].log) : req[h].log[i] = "warning"

\* What get_stations_summary reports after the first load_all_models on the
\* disk: the stations whose two artifacts load, and the others.
FirstSummary ==
    LET both == {s \in StationNames : BothOnDisk(s)}
    IN [total_stations |-> Len(get_station_names),
        loaded_stations |-> Cardinality(both),
        failed_stations |-> Cardinality(StationNames \ both),
        available_stations |-> SelectSeqBy(get_station_names, both),
        failed_stations_list |-> SelectSeqBy(get_station_names, StationNames \ both)]

\* C26: load_all_models is idempotent: after any number of calls on the
\* same registry, loaded_stations and failed_stations have no duplicates,
\* their lengths sum to the number of configured stations, and
\* get_available_stations and get_stations_summary report what they
\* reported after the first call.
C26_LoadIdempotent ==
    app.pc \in {"loaded", "running"} =>
        /\ NoDuplicates(loaded_stations)
        /\ NoDuplicates(failed_stations)
        /\ Len(loaded_stations) + Len(failed_stations) = Len(get_station_names)
        /\ get_available_stations = FirstSummary.available_stations
        /\ get_stations_summary = FirstSummary

\* C27 as stated: in every state during and after load_all_models the keys
\* of models, the keys of scalers and the set of loaded_stations are the
\* same, no failed station has an entry in models or scalers, and a station
\* whose model loads but whose scaler does not leaves no model entry.
C27_RegistryAlwaysConsistent ==
    /\ DOMAIN models = DOMAIN scalers
    /\ DOMAIN models = Range(loaded_stations)
    /\ Range(failed_stations) \cap (DOMAIN models \cup DOMAIN scalers) = {}
    /\ \A s \in Attempted :
          (ModelArtifact(s) \in disk /\ ScalerArtifact(s) \notin disk)
          => s \notin DOMAIN models

\* C27: whenever load_all_models is between two stations, and after it, the
\* keys of models, the keys of scalers and the set of loaded_stations are
\* the same.  Within the iteration of a station both of whose artifacts
\* loaded, the station is entered in models, then in scalers, then in
\* loaded_stations, so that between these statements models is ahead of
\* scalers, or both are ahead of loaded_stations, by that one station.  In
\* every state no failed station has an entry in models or scalers, and a
\* station whose model loads but whose scaler does not leaves no model
\* entry.
C27_RegistryConsistent ==
    /\ app.pc \notin {"store_scaler", "append_loaded"} =>
          /\ DOMAIN models = DOMAIN scalers
          /\ DOMAIN models = Range(loaded_stations)
    /\ app.pc = "store_scaler" =>
          /\ CurrentStation \notin DOMAIN scalers
          /\ DOMAIN models = DOMAIN scalers \cup {CurrentStation}
          /\ DOMAIN scalers = Range(loaded_stations)
    /\ app.pc = "append_loaded" =>
          /\ CurrentStation \notin Range(loaded_stations)
          /\ DOMAIN models = DOMAIN scalers
          /\ DOMAIN models = Range(loaded_stations) \cup {CurrentStation}
    /\ Range(failed_stations) \cap (DOMAIN models \cup DOMAIN scalers) = {}
    /\ \A s \in Attempted :
          (ModelArtifact(s) \in disk /\ ScalerArtifact(s) \notin disk)
          => s \notin DOMAIN models

\* load_all_models is over: the model of M5025 loaded and its scaler did
\* not, it is listed as failed and has no entry, and P34 was registered.
C27_Witness ==
    /\ app.pc = "loaded"
    /\ ModelArtifact("M5025") \in disk /\ ScalerArtifact("M5025") \notin disk
    /\ "M5025" \in Range(failed_stations)
    /\ "M5025" \notin DOMAIN models
    /\ "P34" \in DOMAIN models /\ "P34" \in DOMAIN scalers
    /\ "P34" \in Range(loaded_stations)

\* C28: whatever the interleaving of the handlers reading service_manager,
\* each of station_service, weather_service, prediction_service and
\* analysis_service is instantiated at most once in the process, and every
\* handler is handed the same instance.
C28_SingleInstances ==
    \A service \in Services :
        /\ app.built[service] <= 1
        /\ Cardinality(UNION {req[h].observed[service] : h \in Handlers}) <= 1

\* C29: in every success response of /predict, analysis_included is true
\* exactly when the field agricultural_analysis is present, and
\* analysis_error is present only when analysis_included is false, whatever
\* the analysis adapter returned, an empty analysis object included.
C29_AnalysisFlagMatchesField ==
    \A h \in Handlers :
        (Done(h) /\ req[h].endpoint = "/predict" /\ Status(h) = 200) =>
            /\ Body(h)["analysis_included"]
                   <=> "agricultural_analysis" \in DOMAIN Body(h)
            /\ "analysis_error" \in DOMAIN Body(h)
                   => ~Body(h)["analysis_included"]

\* C30: get_historical_data validates its arguments before any network
\* activity: called with a date that does not parse, or with a latitude
\* outside [-90, 90] or a longitude outside [-180, 180], it raises
\* ValidationError and has sent no request.
C30_ValidationBeforeRequest ==
    call.fn = "get_historical_data" =>
        LET date_str == call.args[1]
            lat == call.args[2]
            lon == call.args[3]
            invalid == \/ ~date_str.fmt
                       \/ date_str.m \notin 1..12
                       \/ date_str.d \notin 1..DaysInMonth(date_str.y, date_str.m)
                       \/ lat \notin -9000000..9000000
                       \/ lon \notin -18000000..18000000
        IN /\ invalid =>
                 /\ ~call.result[1].outcome.ok
                 /\ call.result[1].outcome.exc.type = "ValidationError"
                 /\ call.result[1].outbound = <<>>
           /\ ~invalid => Len(call.result[1].outbound) = 1

\* get_historical_data("2024-06-01", 90.00001, -78.17) raised
\* ValidationError without a request.
C30_Witness ==
    /\ call.fn = "get_historical_data"
    /\ call.args = <<DateStr(2024, 6, 1), 9000001, -7817000>>
    /\ call.result[1].outcome.exc.type = "ValidationError"
    /\ call.result[1].outbound = <<>>

====
